---- MODULE Spec2Model ----
(***************************************************************************)
(* Verification model of the paving estimator core: the CPM Scheduler,     *)
(* the shift optimizer and the Calculator pipeline with the trucking       *)
(* override patch.                                                         *)
(*                                                                         *)
(* Time is counted in ticks of half a day (Activity.duration rounds to     *)
(* 0.5 day), so a duration of 2 days is 4 ticks.                           *)
(***************************************************************************)
EXTENDS Integers, Sequences, FiniteSets, TLC

VARIABLES
    activities,       \* Scheduler.activities: the input list, in input order
    scheduleResults,  \* Scheduler.results: id -> schedule record (empty before run)
    warnings,         \* number of console.warn calls made by _topologicalSort
    shiftInput,       \* the arguments of a shift optimizer call
    shiftPlan,        \* what the shift optimizer returned for them
    tierInput,        \* the arguments of a calcThreeTier call
    threeTier,        \* what calcThreeTier returned for them
    estimate,         \* the Estimate given to the pipeline (its activities apart)
    truckingRate,     \* the trucking rate given to the pipeline
    results,          \* the results object of the pipeline
    indirectCalls,    \* the calls of IndirectCosts.calculate made so far
    runs,             \* the number of calculateAll calls made so far
    simulation,       \* the MonteCarlo object and the arguments of its run
    simulated,        \* the totals run has sampled so far, and what it returned
    benchmarkInput,   \* an activity result and the job mode of its unit check
    unitStatus,       \* the status each unit check gave it
    clusterInput,     \* the arguments of a clusterize call
    clustered,        \* what clusterize returned for them
    params,           \* the parameters an Estimate is constructed with
    calculatedAt,     \* results.calculatedAt, in ticks of the clock
    previous,         \* what the call before the latest returned
    pc                \* position of the program

cpmVars == <<activities, scheduleResults, warnings>>
shiftVars == <<shiftInput, shiftPlan>>
tierVars == <<tierInput, threeTier>>
simVars == <<simulation, simulated>>
checkVars == <<benchmarkInput, unitStatus>>
clusterVars == <<clusterInput, clustered>>
repeatVars == <<calculatedAt, previous>>
pipelineVars == <<estimate, truckingRate, results, indirectCalls, runs>>
vars == <<activities, scheduleResults, warnings, shiftInput, shiftPlan,
          tierInput, threeTier,
          estimate, truckingRate, results, indirectCalls, runs,
          simulation, simulated, benchmarkInput, unitStatus,
          clusterInput, clustered, params, calculatedAt, previous, pc>>

-----------------------------------------------------------------------------
(* Bounds of the model *)

\* number of half-day ticks in a day
TicksPerDay == 2
\* most dependencies in one dependency graph
MaxDeps == 2
\* largest |lag| of a dependency, in ticks
MaxLag == 1
\* activity ids, in input order
ActivityIds == <<"A", "B", "C">>
\* gross quantities an activity may have (rate 2/day: one tick per unit)
QuantityChoices == {0, 4, 6, 8}
\* largest raw hours figure given to the shift optimizer, in quarter hours
MaxRawHours == 120
\* largest minimum-days floor given to the shift optimizer
MaxMinDays == 2
\* shift lengths tried as standard and as maximum shift, in quarter hours
\* (6 h, 8 h, 8.5 h, 10 h, 12 h)
ShiftChoices == {24, 32, 34, 40, 48}
\* largest gross quantity and production rate given to calcThreeTier
MaxGrossQty == 12
MaxProdPerDay == 4
\* productivity factors given to calcThreeTier, in hundredths
ProductivityChoices == {0, 70, 100}
\* the values a spread sample is drawn from, evenly from min up
UnitCostSpread == 2
SampleSteps == 4
\* most iterations and most variables of a Monte Carlo run
MaxIterations == 3
MaxVariables == 2
\* most calculateAll calls in a row
MaxRuns == 2
\* most activities of an estimate given to the pipeline
MaxPipelineActivities == 2
\* activities of an estimate that is calculated twice, and calls made on it
MaxRepeatActivities == 1
MaxRepeats == 2
\* bits in the mantissa of a Number holding an amount of money (the program's
\* Numbers have 53)
Precision == 5

-----------------------------------------------------------------------------
(* The values variables hold before the part of the program that sets them  *)
(* has run                                                                  *)

NoTierInput ==
    [grossQty |-> 0, prodPerDay |-> 0, productivityFactor |-> 0,
     stdShift |-> 0, maxShift |-> 0]

NoSimulation == [iterations |-> 0, baseEstimate |-> 0, variables |-> << >>]
NoSimulated == [results |-> << >>, returned |-> << >>]

NoBenchmarkInput ==
    [activityType |-> "", duration |-> 0, unitCost |-> [num |-> 0, den |-> 1],
     unitCostUOM |-> "", jobMode |-> ""]
NoUnitStatus == [classified |-> FALSE, confidence |-> "", phase8 |-> << >>, patched |-> << >>]

NoClusterInput == [activities |-> << >>, jobMode |-> "", travelHours |-> 0, stdShift |-> 0]
NoClustered ==
    [returned |-> FALSE, clusters |-> << >>, hasTotals |-> FALSE, totalMobCost |-> 0,
     safetyCost |-> 0, totalMobAndSafety |-> 0, isCombo |-> FALSE]

NoTrucking == [isNull |-> TRUE, cycleTime |-> 0, truckCapacity |-> 0, efficiency |-> 0]

NoShiftSettings == [isNull |-> TRUE, stdShift |-> 0, maxShift |-> 0]

NoIndirectCosts ==
    [generalConditions |->
        [superintendentPerDay |-> 0, fieldOfficePerDay |-> 0, tempFacilitiesPerDay |-> 0,
         tempConstructionLump |-> 0, tempConstructionPerDay |-> 0, smallToolsPct |-> 0,
         safetyPpePct |-> 0, qcTestingLump |-> 0, cleanupLump |-> 0],
     homeOfficeOverheadPct |-> 0,
     feeProfitPct |-> 0,
     bondsInsurance |-> [bondRatePct |-> 0, glInsurancePct |-> 0, wcRatePct |-> 0,
                         permitFeesLump |-> 0, prevailingWageLump |-> 0],
     contingency |-> [identifiedRisksTotal |-> 0, unidentifiedAllowancePct |-> 0,
                      manualOverride |-> [isNull |-> TRUE, value |-> 0]]]

NoCalendar == [timeline |-> << >>, workDays |-> 0, weatherDays |-> 0, totalDays |-> 0]

NoEstimate ==
    [jobMode |-> "undefined", shiftSettings |-> NoShiftSettings,
     clusterMode |-> FALSE, travelHours |-> 0, weatherDays |-> 0,
     indirectCosts |-> NoIndirectCosts,
     confidenceScore |-> << >>, analysisResults |-> << >>,
     calendarDuration |-> NoCalendar]

NoParams ==
    [jobMode |-> "undefined", shiftSettings |-> NoShiftSettings,
     clusterMode |-> FALSE, travelHours |-> 0, weatherDays |-> 0,
     indirectCosts |-> NoIndirectCosts]

IndirectFields ==
    {"gcTimeDep", "gcFixed", "gcPctBased", "gcTotal", "totalFieldCost",
     "homeOfficeOverhead", "feeProfit", "escalationAmount", "bondsCost",
     "insuranceCost", "regulatoryCost", "biTotal", "subtotalBeforeContingency",
     "identifiedRisks", "unidentifiedAllowance", "totalContingency",
     "totalEstimatedCost"}

\* clusterResults when clusterMode is not set (null): nothing was returned
NoClusterResults ==
    [returned |-> FALSE, clusters |-> << >>, hasTotals |-> FALSE, totalMobCost |-> 0,
     safetyCost |-> 0, totalMobAndSafety |-> 0, isCombo |-> FALSE]

NoResults ==
    [activities |-> << >>, projectDuration |-> 0, totalActivityDays |-> 0,
     criticalPath |-> << >>, totalLaborCost |-> 0, totalEquipmentCost |-> 0,
     totalMaterialCost |-> 0, totalTruckingCost |-> 0, totalMobilizationCost |-> 0,
     totalTruckHours |-> 0, directCostTotal |-> 0, totalHMATons |-> 0,
     clusterResults |-> NoClusterResults, mobAndSafety |-> 0,
     indirect |-> [f \in IndirectFields |-> 0],
     confidenceScore |-> << >>, unitChecks |-> << >>, analysisResults |-> << >>,
     calendarDuration |-> NoCalendar]

NoPrevious == [returned |-> FALSE, results |-> NoResults, calculatedAt |-> 0]

-----------------------------------------------------------------------------
(* Arithmetic helpers *)

Max(a, b) == IF a >= b THEN a ELSE b
Min(a, b) == IF a <= b THEN a ELSE b
Abs(a) == IF a < 0 THEN -a ELSE a
\* Math.ceil(n / d) for d > 0
CeilDiv(n, d) == IF n >= 0 THEN (n + d - 1) \div d ELSE -((-n) \div d)

SeqToSet(s) == {s[i] : i \in 1..Len(s)}
Reverse(s) == [i \in 1..Len(s) |-> s[Len(s) + 1 - i]]

RECURSIVE SumOver(_, _)
SumOver(S, f) ==
    IF S = {} THEN 0
    ELSE LET x == CHOOSE y \in S : TRUE IN f[x] + SumOver(S \ {x}, f)

-----------------------------------------------------------------------------
(* Activity (models/Activity.js) *)

DependencyType == {"FS", "SS", "FF", "SF"}

\* adjustedProductionRate = outputQty * composite (composite in percent)
adjustedProductionRate(a) == a.outputQty * a.composite

\* duration in ticks: Math.ceil(gross / adjustedRate * 2) / 2 days
duration(a) ==
    IF adjustedProductionRate(a) = 0 THEN 0
    ELSE CeilDiv(TicksPerDay * a.grossQuantity * 100, adjustedProductionRate(a))

-----------------------------------------------------------------------------
(* Shift optimizer (hours are counted in quarter hours; a day's hours may be *)
(* a fraction num / den of them)                                            *)

\* SHIFT_CONSTANTS.BILLING_INCREMENTS: 4, 6, 8, 10, 12 hours
BILLING_INCREMENTS == <<16, 24, 32, 40, 48>>
\* SHIFT_CONSTANTS.HUSTLE_THRESHOLD: 0.5 hour
HUSTLE_THRESHOLD == 2

NoShiftInput == [rawHours |-> 0, stdShift |-> 0, maxShift |-> 0, minDays |-> 0]
NoPlan == [hours |-> 0, days |-> 0, hustle |-> FALSE, hustleAmount |-> 0,
           hustleDen |-> 1, shiftBase |-> 0, call |-> "none"]

\* the loop of snapWithHustle over the increments, from the i-th on
RECURSIVE snapLoop(_, _, _)
snapLoop(num, den, i) ==
    IF i > Len(BILLING_INCREMENTS)
    THEN LET maxInc == BILLING_INCREMENTS[Len(BILLING_INCREMENTS)]
         IN [hours |-> CeilDiv(num, den * maxInc) * maxInc, hustle |-> FALSE,
             hustleAmount |-> 0, hustleDen |-> 1]
    ELSE LET inc == BILLING_INCREMENTS[i]
         IN IF num <= inc * den
            THEN [hours |-> inc, hustle |-> FALSE, hustleAmount |-> 0, hustleDen |-> 1]
            ELSE IF num > inc * den /\ num <= (inc + HUSTLE_THRESHOLD) * den
            THEN [hours |-> inc, hustle |-> TRUE,
                  hustleAmount |-> num - inc * den, hustleDen |-> den]
            ELSE snapLoop(num, den, i + 1)

\* a snap that rounds a slight overrun down without reporting the hustle
snapUnreportedHustle(num, den) ==
    IF num <= 0 THEN [hours |-> 0, hustle |-> FALSE, hustleAmount |-> 0, hustleDen |-> 1]
    ELSE [snapLoop(num, den, 1) EXCEPT !.hustle = FALSE]

\* a snap that bills the hours worked, rounded up to the quarter hour
snapToRawHours(num, den) ==
    [hours |-> CeilDiv(Max(num, 0), den), hustle |-> FALSE, hustleAmount |-> 0, hustleDen |-> 1]

\* snapWithHustle(hours) for hours = num / den
snapWithHustle(num, den) ==
    IF num <= 0 THEN [hours |-> 0, hustle |-> FALSE, hustleAmount |-> 0, hustleDen |-> 1]
    ELSE snapLoop(num, den, 1)

\* _buildCandidate(rawHours, shiftBase) for rawHours = num / den
buildCandidate(num, den, shiftBase) ==
    LET fullDays == num \div (den * shiftBase)
        remainder == num - fullDays * shiftBase * den
        lastDaySnapped == snapWithHustle(shiftBase * den + remainder, den)
        partialSnapped == snapWithHustle(remainder, den)
        optionA_total == (fullDays - 1) * shiftBase + lastDaySnapped.hours
        optionB_total == fullDays * shiftBase + partialSnapped.hours
    IN IF remainder <= 0 /\ fullDays > 0
       THEN [hours |-> fullDays * shiftBase, days |-> fullDays, hustle |-> FALSE,
             hustleAmount |-> 0, hustleDen |-> 1, shiftBase |-> shiftBase]
       ELSE IF fullDays = 0
       THEN [hours |-> partialSnapped.hours, days |-> 1,
             hustle |-> partialSnapped.hustle,
             hustleAmount |-> partialSnapped.hustleAmount,
             hustleDen |-> partialSnapped.hustleDen, shiftBase |-> shiftBase]
       ELSE IF optionA_total <= optionB_total
       THEN [hours |-> optionA_total, days |-> fullDays,
             hustle |-> lastDaySnapped.hustle,
             hustleAmount |-> lastDaySnapped.hustleAmount,
             hustleDen |-> lastDaySnapped.hustleDen, shiftBase |-> shiftBase]
       ELSE [hours |-> optionB_total, days |-> fullDays + 1,
             hustle |-> partialSnapped.hustle,
             hustleAmount |-> partialSnapped.hustleAmount,
             hustleDen |-> partialSnapped.hustleDen, shiftBase |-> shiftBase]

\* the minimum-days loop of optimizeShifts, for one candidate
enforceMinDays(c, num, den, minDays) ==
    IF c.days < minDays
    THEN LET snapped == snapWithHustle(num, den * minDays)
         IN [c EXCEPT !.days = minDays, !.hours = snapped.hours * minDays,
                      !.hustle = snapped.hustle,
                      !.hustleAmount = snapped.hustleAmount,
                      !.hustleDen = snapped.hustleDen]
    ELSE c

\* optimizeShifts(rawHours, stdShift, maxShift, minDays) for rawHours = num / den
optimizeShifts(num, den, stdShift, maxShift, minDays) ==
    IF num <= 0
    THEN [hours |-> 0, days |-> 0, hustle |-> FALSE, hustleAmount |-> 0,
          hustleDen |-> 1, shiftBase |-> stdShift]
    ELSE LET std == enforceMinDays(buildCandidate(num, den, stdShift), num, den, minDays)
             max == enforceMinDays(buildCandidate(num, den, maxShift), num, den, minDays)
         IN IF maxShift # stdShift /\ max.hours < std.hours THEN max ELSE std

InitShift ==
    /\ activities = << >>
    /\ scheduleResults = << >>
    /\ warnings = 0
    /\ shiftInput \in [rawHours : 1..MaxRawHours, stdShift : ShiftChoices,
                        maxShift : ShiftChoices, minDays : 1..MaxMinDays]
    /\ shiftPlan = NoPlan
    /\ tierInput = NoTierInput
    /\ threeTier = << >>
    /\ estimate = NoEstimate
    /\ truckingRate = 0
    /\ results = NoResults
    /\ indirectCalls = << >>
    /\ runs = 0
    /\ simulation = NoSimulation
    /\ simulated = NoSimulated
    /\ benchmarkInput = NoBenchmarkInput
    /\ unitStatus = NoUnitStatus
    /\ clusterInput = NoClusterInput
    /\ clustered = NoClustered
    /\ calculatedAt = 0
    /\ previous = NoPrevious
    /\ params = NoParams
    /\ pc = "input"

\* optimizeShifts called with the input
OptimizeShifts ==
    /\ pc = "input"
    /\ shiftPlan' = [call |-> "optimizeShifts"] @@
                        optimizeShifts(shiftInput.rawHours, 1, shiftInput.stdShift,
                                       shiftInput.maxShift, shiftInput.minDays)
    /\ pc' = "optimized"
    /\ UNCHANGED <<cpmVars, shiftInput, tierVars, simVars, checkVars, clusterVars, params, repeatVars, pipelineVars>>

\* snapWithHustle called with the raw hours as one day's hours
SnapSingleShift ==
    /\ pc = "input"
    /\ shiftPlan' = [call |-> "snapWithHustle", days |-> 1,
                     shiftBase |-> shiftInput.stdShift] @@
                        snapWithHustle(shiftInput.rawHours, 1)
    /\ pc' = "optimized"
    /\ UNCHANGED <<cpmVars, shiftInput, tierVars, simVars, checkVars, clusterVars, params, repeatVars, pipelineVars>>

NextShift == OptimizeShifts \/ SnapSingleShift

SpecShift == InitShift /\ [][NextShift]_vars

-----------------------------------------------------------------------------
(* Scheduler (CPM engine) *)

IdSeq(acts) == [i \in 1..Len(acts) |-> acts[i].id]
Ids(acts) == {acts[i].id : i \in 1..Len(acts)}

\* activityMap.get(id)
ActivityById(acts, id) == acts[CHOOSE i \in 1..Len(acts) : acts[i].id = id]

RECURSIVE MaxOf(_)
MaxOf(S) ==
    LET x == CHOOSE y \in S : TRUE
    IN IF S = {x} THEN x ELSE Max(x, MaxOf(S \ {x}))

RECURSIVE MinOf(_)
MinOf(S) ==
    LET x == CHOOSE y \in S : TRUE
    IN IF S = {x} THEN x ELSE Min(x, MinOf(S \ {x}))

RECURSIVE Repeat(_, _)
Repeat(x, n) == IF n = 0 THEN <<>> ELSE <<x>> \o Repeat(x, n - 1)

\* the results every activity gets when run() starts
InitialResult ==
    [earlyStart |-> 0, earlyFinish |-> 0, lateStart |-> 0, lateFinish |-> 0,
     totalFloat |-> 0, freeFloat |-> 0]

\* inDegree after the edge loop: dependencies on unknown ids are not counted
inDegree(acts) ==
    [id \in Ids(acts) |->
        Cardinality({d \in ActivityById(acts, id).dependencies :
                        d.predecessorId \in Ids(acts)})]

\* adjList.get(p): one entry per dependency on p, successors in input order
RECURSIVE adjList(_, _, _)
adjList(acts, p, i) ==
    IF i > Len(acts) THEN <<>>
    ELSE Repeat(acts[i].id,
                Cardinality({d \in acts[i].dependencies : d.predecessorId = p}))
         \o adjList(acts, p, i + 1)

\* the inner loop of Kahn's algorithm over the successors of one activity
RECURSIVE relaxSuccessors(_, _, _)
relaxSuccessors(succs, deg, queue) ==
    IF succs = <<>> THEN <<deg, queue>>
    ELSE LET s == Head(succs)
             newDegree == deg[s] - 1
         IN relaxSuccessors(Tail(succs), [deg EXCEPT ![s] = newDegree],
                            IF newDegree = 0 THEN Append(queue, s) ELSE queue)

RECURSIVE kahnLoop(_, _, _, _)
kahnLoop(acts, queue, deg, sorted) ==
    IF queue = <<>> THEN sorted
    ELSE LET id == Head(queue)
             r == relaxSuccessors(adjList(acts, id, 1), deg, Tail(queue))
         IN kahnLoop(acts, r[2], r[1], Append(sorted, id))

kahnSorted(acts) ==
    LET deg == inDegree(acts)
        queue == SelectSeq(IdSeq(acts), LAMBDA id : deg[id] = 0)
    IN kahnLoop(acts, queue, deg, <<>>)

\* sorted.length !== this.activities.length
cycleDetected(acts) == Len(kahnSorted(acts)) # Len(acts)

\* a sort that leaves the activities in input order whatever they depend on
topologicalSortInputOrder(acts) == IdSeq(acts)

\* a sort that returns the partial Kahn order when it finds a cycle
topologicalSortPartial(acts) == kahnSorted(acts)

\* _topologicalSort: on a cycle the activities are returned as they came
topologicalSort(acts) ==
    IF cycleDetected(acts) THEN IdSeq(acts) ELSE kahnSorted(acts)

\* a forward pass that leaves the lag of a dependency out
esContributionNoLag(dep, predResult, dur) ==
    CASE dep.type = "FS" -> predResult.earlyFinish
      [] dep.type = "SS" -> predResult.earlyStart
      [] dep.type = "FF" -> predResult.earlyFinish - dur
      [] dep.type = "SF" -> predResult.earlyStart - dur

\* the early-start contribution of one dependency (switch in _forwardPass)
esContribution(dep, predResult, dur) ==
    CASE dep.type = "FS" -> predResult.earlyFinish + dep.lag
      [] dep.type = "SS" -> predResult.earlyStart + dep.lag
      [] dep.type = "FF" -> predResult.earlyFinish + dep.lag - dur
      [] dep.type = "SF" -> predResult.earlyStart + dep.lag - dur

RECURSIVE forwardLoop(_, _, _)
forwardLoop(acts, sorted, res) ==
    IF sorted = <<>> THEN res
    ELSE LET a == ActivityById(acts, Head(sorted))
             known == {d \in a.dependencies : d.predecessorId \in DOMAIN res}
             es == MaxOf({0} \cup {esContribution(d, res[d.predecessorId], duration(a)) :
                                      d \in known})
         IN forwardLoop(acts, Tail(sorted),
                [res EXCEPT ![a.id] = [@ EXCEPT !.earlyStart = es,
                                                !.earlyFinish = es + duration(a)]])

forwardPass(acts, res) == forwardLoop(acts, topologicalSort(acts), res)

\* the naive project duration: the sum of the activities' durations
projectDurationNaiveSum(res) ==
    SumOver(DOMAIN res, [id \in DOMAIN res |-> res[id].earlyFinish - res[id].earlyStart])

\* get projectDuration: max early finish, 0 when there are no results
projectDuration(res) == MaxOf({0} \cup {res[id].earlyFinish : id \in DOMAIN res})

\* successors.get(p): the activities that depend on p, with type and lag
successors(acts, p) ==
    {[id |-> acts[i].id, type |-> d.type, lag |-> d.lag] :
        <<i, d>> \in {<<j, e>> \in (1..Len(acts)) \X UNION {acts[k].dependencies : k \in 1..Len(acts)} :
                        e \in acts[j].dependencies /\ e.predecessorId = p}}

\* a backward pass that bounds every late finish by the successor's late finish
lfBoundLateFinishOnly(succ, succResult, dur) == succResult.lateFinish - succ.lag

\* the late-finish bound one successor imposes (switch in _backwardPass)
lfBound(succ, succResult, dur) ==
    CASE succ.type = "FS" -> succResult.lateStart - succ.lag
      [] succ.type = "SS" -> succResult.lateStart - succ.lag + dur
      [] succ.type = "FF" -> succResult.lateFinish - succ.lag
      [] succ.type = "SF" -> succResult.lateFinish - succ.lag + dur

\* a late start that forgets to subtract the duration
lateStartNoDuration(lf, dur) == lf

\* r.lateStart = lf - activity.duration
lateStartOf(lf, dur) == lf - dur

RECURSIVE backwardLoop(_, _, _, _)
backwardLoop(acts, sorted, res, projectEnd) ==
    IF sorted = <<>> THEN res
    ELSE LET a == ActivityById(acts, Head(sorted))
             succs == successors(acts, a.id)
             lf == MinOf({projectEnd} \cup {lfBound(s, res[s.id], duration(a)) : s \in succs})
         IN backwardLoop(acts, Tail(sorted),
                IF succs = {} THEN res
                ELSE [res EXCEPT ![a.id] = [@ EXCEPT !.lateFinish = lf,
                                                     !.lateStart = lateStartOf(lf, duration(a))]],
                projectEnd)

backwardPass(acts, res) ==
    LET projectEnd == projectDuration(res)
        seeded == [id \in DOMAIN res |->
                    [res[id] EXCEPT !.lateFinish = projectEnd,
                                    !.lateStart = lateStartOf(projectEnd, duration(ActivityById(acts, id)))]]
    IN backwardLoop(acts, Reverse(topologicalSort(acts)), seeded, projectEnd)

calculateFloat(acts, res) ==
    [id \in DOMAIN res |->
        LET r == res[id]
            succs == successors(acts, id)
        IN [r EXCEPT
              !.totalFloat = r.lateStart - r.earlyStart,
              !.freeFloat =
                 IF succs # {}
                 THEN MinOf({res[s.id].earlyStart : s \in succs}) - r.earlyFinish
                 ELSE projectDuration(res) - r.earlyFinish]]

\* Scheduler.run: the results map after the three passes
run(acts) ==
    IF Len(acts) = 0 THEN << >>
    ELSE calculateFloat(acts,
            backwardPass(acts,
              forwardPass(acts, [id \in Ids(acts) |-> InitialResult])))

\* a critical path that keeps the activities without work
criticalPathAnyDuration(acts, res) ==
    SelectSeq(IdSeq(acts),
              LAMBDA id : /\ id \in DOMAIN res
                          /\ Abs(res[id].totalFloat) * 1000 < TicksPerDay)

\* get criticalPath: ids in input order, |totalFloat| < 0.001 day and duration > 0
criticalPath(acts, res) ==
    SelectSeq(IdSeq(acts),
              LAMBDA id : /\ id \in DOMAIN res
                          /\ Abs(res[id].totalFloat) * 1000 < TicksPerDay
                          /\ duration(ActivityById(acts, id)) > 0)

-----------------------------------------------------------------------------
(* The scheduler's inputs and its run *)

Lags == (0 - MaxLag)..MaxLag

NumDeps(acts) ==
    Cardinality(UNION {{<<i, d>> : d \in acts[i].dependencies} : i \in 1..Len(acts)})

\* an Activity as the Scheduler sees it (rate 2 per day, productivity 1.0)
NewActivity(id, qty) ==
    [id |-> id, grossQuantity |-> qty, outputQty |-> 2, composite |-> 100,
     dependencies |-> {}]

InitCPM ==
    /\ \E n \in 0..Len(ActivityIds) :
       \E q \in [1..n -> QuantityChoices] :
          activities = [i \in 1..n |-> NewActivity(ActivityIds[i], q[i])]
    /\ scheduleResults = << >>
    /\ warnings = 0
    /\ shiftInput = NoShiftInput
    /\ shiftPlan = NoPlan
    /\ tierInput = NoTierInput
    /\ threeTier = << >>
    /\ estimate = NoEstimate
    /\ truckingRate = 0
    /\ results = NoResults
    /\ indirectCalls = << >>
    /\ runs = 0
    /\ simulation = NoSimulation
    /\ simulated = NoSimulated
    /\ benchmarkInput = NoBenchmarkInput
    /\ unitStatus = NoUnitStatus
    /\ clusterInput = NoClusterInput
    /\ clustered = NoClustered
    /\ calculatedAt = 0
    /\ previous = NoPrevious
    /\ params = NoParams
    /\ pc = "build"

\* one more entry in an activity's dependencies list
AddDependency ==
    /\ pc = "build"
    /\ NumDeps(activities) < MaxDeps
    /\ \E i \in 1..Len(activities), p \in Ids(activities),
          t \in DependencyType, l \in Lags :
          /\ p # activities[i].id
          /\ activities' = [activities EXCEPT ![i].dependencies =
                               @ \cup {[predecessorId |-> p, type |-> t, lag |-> l]}]
    /\ UNCHANGED <<scheduleResults, warnings, shiftVars, tierVars, simVars, checkVars, clusterVars, params, repeatVars, pipelineVars, pc>>

\* new Scheduler(activities).run()
SchedulerRun ==
    /\ pc = "build"
    /\ scheduleResults' = run(activities)
    /\ warnings' = IF Len(activities) > 0 /\ cycleDetected(activities) THEN 2 ELSE 0
    /\ pc' = "done"
    /\ UNCHANGED <<activities, shiftVars, tierVars, simVars, checkVars, clusterVars, params, repeatVars, pipelineVars>>

NextCPM == AddDependency \/ SchedulerRun

SpecCPM == InitCPM /\ [][NextCPM]_vars

-----------------------------------------------------------------------------
(* Number arithmetic on amounts of money: every sum, difference and product *)
(* is rounded to the nearest Number, ties to the even mantissa.  Amounts    *)
(* are whole multiples of the smallest amount the model draws.              *)

RECURSIVE Ulp(_)
Ulp(n) == IF n < 2 ^ Precision THEN 1 ELSE 2 * Ulp(n \div 2)

\* a >= 0 rounded to a multiple of the spacing q, lo being the multiple below
roundToEven(a, lo, q) ==
    IF 2 * (a - lo) < q THEN lo
    ELSE IF 2 * (a - lo) > q THEN lo + q
    ELSE IF (lo \div q) % 2 = 0 THEN lo ELSE lo + q

\* a >= 0 rounded to the nearest Number, the Numbers around it being q apart
roundAt(a, q) == roundToEven(a, (a \div q) * q, q)

fl(x) == IF x < 0 THEN 0 - roundAt(0 - x, Ulp(0 - x)) ELSE roundAt(x, Ulp(x))

fadd(a, b) == fl(a + b)
fsub(a, b) == fl(a - b)
fmul(a, b) == fl(a * b)

\* total = 0; for (x of s) total += f(x)
FSumSeq(s) ==
    LET sum[i \in 0..Len(s)] == IF i = 0 THEN 0 ELSE fadd(sum[i - 1], s[i])
    IN sum[Len(s)]

-----------------------------------------------------------------------------
(* Activity costs and trucking (models/Activity.js, models/Crew.js).  The   *)
(* rates the model draws make the halving of a day count exact.             *)

\* CONSTANTS.WORKDAY_HOURS
WORKDAY_HOURS == 8
\* CONSTANTS.WORKDAY_MINUTES
WORKDAY_MINUTES == 480
\* CONSTANTS.TRUCK_CY
TRUCK_CY == 16
\* CONSTANTS.TRUCK_TONS
TRUCK_TONS == 22

\* Crew.laborCostPerDay(hoursPerDay), Crew.equipmentCostPerDay(hoursPerDay)
laborCostPerDay(crew, hoursPerDay) == fmul(crew.laborCostPerHour, hoursPerDay)
equipmentCostPerDay(crew, hoursPerDay) == fmul(crew.equipmentCostPerHour, hoursPerDay)

\* Activity.laborCost: duration (days) x crew labor cost per day
laborCost(a) == fl((duration(a) * laborCostPerDay(a.crew, WORKDAY_HOURS)) \div TicksPerDay)

\* Activity.equipmentCost
equipmentCost(a) ==
    fl((duration(a) * equipmentCostPerDay(a.crew, WORKDAY_HOURS)) \div TicksPerDay)

\* Activity.materialCost, for the one material resource an activity carries
materialCost(a) == fadd(0, fmul(a.grossQuantity, a.materialRate))

\* Activity.mobilizationCost
mobilizationCost(a) ==
    IF ~a.mobilization.included \/ duration(a) <= 0 THEN 0 ELSE a.mobilization.cost

\* trucks = ceil((loadsPerDay * cycleTime) / (WORKDAY_MINUTES * efficiency)) with
\* loadsPerDay = (totalQuantity / days) / truckCapacity; efficiency in percent,
\* 0 standing for an unset efficiency (t.efficiency || 0.90)
trucksNeeded(totalQuantity, dur, t) ==
    LET efficiency == IF t.efficiency = 0 THEN 90 ELSE t.efficiency
    IN CeilDiv(totalQuantity * t.cycleTime * TicksPerDay * 100,
               dur * t.truckCapacity * WORKDAY_MINUTES * efficiency)

\* truckHours = ceil(trucks * days * WORKDAY_HOURS)
truckHoursNeeded(trucks, dur) == CeilDiv(trucks * dur * WORKDAY_HOURS, TicksPerDay)

\* Activity.calculateTrucking(truckingRate)
calculateTrucking(a, rate) ==
    IF a.trucking.isNull \/ a.trucking.cycleTime = 0 \/ duration(a) <= 0
    THEN [trucks |-> 0, truckHours |-> 0, truckCost |-> 0]
    ELSE LET trucks == trucksNeeded(a.grossQuantity, duration(a), a.trucking)
             truckHours == truckHoursNeeded(trucks, duration(a))
         IN [trucks |-> trucks, truckHours |-> truckHours,
             truckCost |-> fmul(truckHours, rate)]

\* Activity.directCost
directCost(a) ==
    fadd(fadd(fadd(laborCost(a), equipmentCost(a)), materialCost(a)), mobilizationCost(a))

-----------------------------------------------------------------------------
(* IndirectCosts.calculate (models/WorkPackage.js).  The percentages the  *)
(* model draws are 0 or 100, so that pct / 100 is a whole factor;           *)
(* escalation is constructed disabled and contributes 0.                    *)

PctFactor(p) == p \div 100

\* the duration a caller hands to IndirectCosts.calculate: the sum of the
\* activity durations
durationForIndirectNaiveSum(projectDur, totalActivityDays) == totalActivityDays

\* the duration a caller hands to IndirectCosts.calculate: projectDuration
durationForIndirect(projectDur, totalActivityDays) == projectDur

\* (superintendentPerDay + fieldOfficePerDay + tempFacilitiesPerDay +
\*  tempConstructionPerDay) * projectDurationDays
gcTimeDepOf(gc, projectDurationDays) ==
    fl((fadd(fadd(fadd(gc.superintendentPerDay, gc.fieldOfficePerDay),
                  gc.tempFacilitiesPerDay), gc.tempConstructionPerDay)
        * projectDurationDays) \div TicksPerDay)

IndirectCostsCalculate(ic, directCostArg, laborCostArg, projectDurationDays) ==
    LET gc == ic.generalConditions
        gcTimeDep == gcTimeDepOf(gc, projectDurationDays)
        gcFixed == fadd(fadd(gc.tempConstructionLump, gc.qcTestingLump), gc.cleanupLump)
        gcPctBased == fmul(laborCostArg,
                           fadd(PctFactor(gc.smallToolsPct), PctFactor(gc.safetyPpePct)))
        gcTotal == fadd(fadd(gcTimeDep, gcFixed), gcPctBased)
        totalFieldCost == fadd(directCostArg, gcTotal)
        homeOfficeOverhead == fmul(totalFieldCost, PctFactor(ic.homeOfficeOverheadPct))
        feeProfit == fmul(fadd(totalFieldCost, homeOfficeOverhead), PctFactor(ic.feeProfitPct))
        escalationAmount == 0
        bi == ic.bondsInsurance
        subtotalForBonds == fadd(fadd(fadd(totalFieldCost, homeOfficeOverhead), feeProfit),
                                 escalationAmount)
        bondsCost == fmul(subtotalForBonds, PctFactor(bi.bondRatePct))
        insuranceCost == fmul(laborCostArg,
                              fadd(PctFactor(bi.glInsurancePct), PctFactor(bi.wcRatePct)))
        regulatoryCost == fadd(bi.permitFeesLump, bi.prevailingWageLump)
        biTotal == fadd(fadd(bondsCost, insuranceCost), regulatoryCost)
        subtotalBeforeContingency ==
            fadd(fadd(fadd(fadd(totalFieldCost, homeOfficeOverhead), feeProfit),
                      escalationAmount), biTotal)
        ct == ic.contingency
        unidentifiedAllowance == fmul(subtotalBeforeContingency, ct.unidentifiedAllowancePct)
        totalContingency == IF ct.manualOverride.isNull
                            THEN fadd(ct.identifiedRisksTotal, unidentifiedAllowance)
                            ELSE ct.manualOverride.value
    IN [gcTimeDep |-> gcTimeDep, gcFixed |-> gcFixed, gcPctBased |-> gcPctBased,
        gcTotal |-> gcTotal, totalFieldCost |-> totalFieldCost,
        homeOfficeOverhead |-> homeOfficeOverhead, feeProfit |-> feeProfit,
        escalationAmount |-> escalationAmount, bondsCost |-> bondsCost,
        insuranceCost |-> insuranceCost, regulatoryCost |-> regulatoryCost,
        biTotal |-> biTotal, subtotalBeforeContingency |-> subtotalBeforeContingency,
        identifiedRisks |-> ct.identifiedRisksTotal,
        unidentifiedAllowance |-> unidentifiedAllowance,
        totalContingency |-> totalContingency,
        totalEstimatedCost |-> fadd(subtotalBeforeContingency, totalContingency)]

-----------------------------------------------------------------------------
(* Benchmarks, confidence and analysis (data/paving-defaults.js,            *)
(* engine/Confidence.js, engine/AnalysisEngine.js).  Benchmark prices are   *)
(* in cents; a unit cost and a score are fractions [num, den].              *)

ActivityTypes == {"excavation", "milling", "paving_base", "paving_surface"}

\* BENCHMARKS, for the activity types of the model
BENCHMARKS ==
    [parking_lot |->
        [excavation |-> [p25 |-> 1200, median |-> 1800, p75 |-> 2800, n |-> 19, unit |-> "CY"],
         milling |-> [p25 |-> 295, median |-> 364, p75 |-> 458, n |-> 516, unit |-> "SY"],
         paving_base |-> [p25 |-> 2231, median |-> 2810, p75 |-> 3526, n |-> 162, unit |-> "SY"],
         paving_surface |-> [p25 |-> 1030, median |-> 1109, p75 |-> 1225, n |-> 163,
                             unit |-> "SY"]],
     roadway |->
        [excavation |-> [p25 |-> 800, median |-> 1200, p75 |-> 2000, n |-> 0, unit |-> "CY"],
         milling |-> [p25 |-> 150, median |-> 182, p75 |-> 250, n |-> 0, unit |-> "SY"],
         paving_base |-> [p25 |-> 800, median |-> 1150, p75 |-> 1600, n |-> 0, unit |-> "SY"],
         paving_surface |-> [p25 |-> 600, median |-> 850, p75 |-> 1200, n |-> 0,
                             unit |-> "SY"]]]

\* QTY_RANGES, for the activity types of the model
QTY_RANGES ==
    [parking_lot |-> [excavation |-> [low |-> 50, high |-> 2000],
                      milling |-> [low |-> 500, high |-> 20000],
                      paving_base |-> [low |-> 200, high |-> 12000],
                      paving_surface |-> [low |-> 500, high |-> 25000]],
     roadway |-> [excavation |-> [low |-> 200, high |-> 10000],
                  milling |-> [low |-> 2000, high |-> 80000],
                  paving_base |-> [low |-> 1000, high |-> 30000],
                  paving_surface |-> [low |-> 2000, high |-> 80000]]]

\* BENCHMARKS[jobMode] || BENCHMARKS.parking_lot
benchmarksFor(jobMode) ==
    IF jobMode \in DOMAIN BENCHMARKS THEN BENCHMARKS[jobMode] ELSE BENCHMARKS.parking_lot

\* QTY_RANGES[jobMode] || QTY_RANGES.parking_lot
qtyRangesFor(jobMode) ==
    IF jobMode \in DOMAIN QTY_RANGES THEN QTY_RANGES[jobMode] ELSE QTY_RANGES.parking_lot

\* RATE_CONFIDENCE scores, in hundredths
RATE_CONFIDENCE ==
    [excavation |-> 65, milling |-> 85, paving_base |-> 80, paving_surface |-> 85]

\* CONFIDENCE_WEIGHTS, in hundredths
CONFIDENCE_WEIGHTS ==
    [productionReliability |-> 35, benchmarkAlignment |-> 30,
     scopeDefinition |-> 20, dataQuality |-> 15]

\* the activity types generateAnalysis expects trucking for
TruckedTypes == {"excavation", "dga_base", "milling", "paving_base", "paving_surface"}

Frac(n, d) == [num |-> n, den |-> d]

RECURSIVE GCD(_, _)
GCD(a, b) == IF b = 0 THEN a ELSE GCD(b, a % b)

\* the same quotient in lowest terms
Reduced(n, d) == Frac(n \div GCD(n, d), d \div GCD(n, d))
FracPositive(u) == u.num > 0

\* _getUnitCostStatus(unitCost, benchmark)
getUnitCostStatus(u, bm) ==
    IF u.num * 100 >= bm.p25 * u.den /\ u.num * 100 <= bm.p75 * u.den THEN "IN_RANGE"
    ELSE IF u.num * 200 < bm.p25 * u.den THEN "VERY_LOW"
    ELSE IF u.num * 100 < bm.p25 * u.den THEN "LOW"
    ELSE IF u.num * 200 > 3 * bm.p75 * u.den THEN "VERY_HIGH"
    ELSE IF u.num * 100 > bm.p75 * u.den THEN "HIGH"
    ELSE "IN_RANGE"

\* a status chain that takes a unit cost equal to P75 as HIGH
phase8StatusStrict(u, bm) ==
    IF u.num * 200 < bm.p25 * u.den THEN "VERY_LOW"
    ELSE IF u.num * 100 < bm.p25 * u.den THEN "LOW"
    ELSE IF u.num * 200 >= 3 * bm.p75 * u.den THEN "VERY_HIGH"
    ELSE IF u.num * 100 >= bm.p75 * u.den THEN "HIGH"
    ELSE "IN_RANGE"

\* the status chain of Calculator.calculate, Phase 8
phase8Status(u, bm) ==
    IF u.num * 200 < bm.p25 * u.den THEN "VERY_LOW"
    ELSE IF u.num * 100 < bm.p25 * u.den THEN "LOW"
    ELSE IF u.num * 200 > 3 * bm.p75 * u.den THEN "VERY_HIGH"
    ELSE IF u.num * 100 > bm.p75 * u.den THEN "HIGH"
    ELSE "IN_RANGE"

SumSeq(s) ==
    LET sum[i \in 0..Len(s)] == IF i = 0 THEN 0 ELSE sum[i - 1] + s[i]
    IN sum[Len(s)]

Active(ars) == SelectSeq(ars, LAMBDA a : a.duration > 0)

\* the unit checks of Calculator.calculate (Phase 8)
unitChecksPhase8(ars, jobMode) ==
    LET checked == SelectSeq(ars, LAMBDA a : a.duration > 0 /\ FracPositive(a.unitCost))
    IN [i \in 1..Len(checked) |->
          [activityType |-> checked[i].activityType, unitCost |-> checked[i].unitCost,
           unitCostUOM |-> checked[i].unitCostUOM,
           status |-> phase8Status(checked[i].unitCost,
                                   benchmarksFor(jobMode)[checked[i].activityType])]]

\* the unit checks of calculateWithTruckingOverrides
unitChecksPatched(ars, jobMode) ==
    LET checked == SelectSeq(ars, LAMBDA a : a.duration > 0 /\ FracPositive(a.unitCost))
    IN [i \in 1..Len(checked) |->
          [activityType |-> checked[i].activityType, unitCost |-> checked[i].unitCost,
           unitCostUOM |-> checked[i].unitCostUOM,
           status |-> getUnitCostStatus(checked[i].unitCost,
                                        benchmarksFor(jobMode)[checked[i].activityType])]]

\* The unit checks on their own: one activity result, whose unit cost is at
\* most UnitCostSpread half-cents from a boundary of its benchmark's bands
\* (or 0), is classified by _getUnitCostStatus, by Phase 8 and by the unit
\* checks of calculateWithTruckingOverrides.
BandBoundaries(bm) == {bm.p25, 2 * bm.p25, 2 * bm.p75, 3 * bm.p75}

UnitCostChoices(bm) ==
    {Frac(0, 200)} \cup
    {Frac(b + d, 200) : b \in BandBoundaries(bm), d \in -UnitCostSpread..UnitCostSpread}

InitUnitCheck ==
    /\ activities = << >>
    /\ scheduleResults = << >>
    /\ warnings = 0
    /\ shiftInput = NoShiftInput
    /\ shiftPlan = NoPlan
    /\ tierInput = NoTierInput
    /\ threeTier = << >>
    /\ estimate = NoEstimate
    /\ truckingRate = 0
    /\ results = NoResults
    /\ indirectCalls = << >>
    /\ runs = 0
    /\ simulation = NoSimulation
    /\ simulated = NoSimulated
    /\ \E jobMode \in DOMAIN BENCHMARKS, type \in ActivityTypes, d \in 0..1 :
          \E u \in UnitCostChoices(BENCHMARKS[jobMode][type]) :
              benchmarkInput = [activityType |-> type, duration |-> d, unitCost |-> u,
                                unitCostUOM |-> BENCHMARKS[jobMode][type].unit,
                                jobMode |-> jobMode]
    /\ unitStatus = NoUnitStatus
    /\ clusterInput = NoClusterInput
    /\ clustered = NoClustered
    /\ calculatedAt = 0
    /\ previous = NoPrevious
    /\ params = NoParams
    /\ pc = "check"

\* the three unit checks of one activity result
Classify ==
    /\ pc = "check"
    /\ ~unitStatus.classified
    /\ unitStatus' =
          [classified |-> TRUE,
           confidence |-> getUnitCostStatus(benchmarkInput.unitCost,
                              benchmarksFor(benchmarkInput.jobMode)[benchmarkInput.activityType]),
           phase8 |-> unitChecksPhase8(<<benchmarkInput>>, benchmarkInput.jobMode),
           patched |-> unitChecksPatched(<<benchmarkInput>>, benchmarkInput.jobMode)]
    /\ UNCHANGED <<cpmVars, shiftVars, tierVars, simVars, pipelineVars, clusterVars, params, repeatVars,
                   benchmarkInput, pc>>

NextUnitCheck == Classify

SpecUnitCheck == InitUnitCheck /\ [][NextUnitCheck]_vars

\* _calcProductionReliability: activities weighted by directCost || 1
calcProductionReliability(acts) ==
    LET weight(a) == IF a.directCost = 0 THEN 1 ELSE a.directCost
        totalWeight == SumSeq([k \in DOMAIN acts |-> weight(acts[k])])
        weightedScore == SumSeq([k \in DOMAIN acts |->
                             RATE_CONFIDENCE[acts[k].activityType] * weight(acts[k])])
    IN IF totalWeight > 0 THEN Reduced(weightedScore, 100 * totalWeight) ELSE Frac(1, 2)

\* _calcBenchmarkAlignment
calcBenchmarkAlignment(acts, benchmarks) ==
    LET counted == SelectSeq(acts, LAMBDA a : FracPositive(a.unitCost))
        inRange == SelectSeq(counted, LAMBDA a :
                       getUnitCostStatus(a.unitCost, benchmarks[a.activityType]) = "IN_RANGE")
    IN IF Len(counted) > 0 THEN Frac(Len(inRange), Len(counted)) ELSE Frac(1, 2)

\* _calcScopeDefinition
calcScopeDefinition(acts, qtyRanges) ==
    LET counted == SelectSeq(acts, LAMBDA a : a.grossQuantity # 0)
        inRange == SelectSeq(counted, LAMBDA a :
                       /\ a.grossQuantity >= qtyRanges[a.activityType].low
                       /\ a.grossQuantity <= qtyRanges[a.activityType].high)
    IN IF Len(counted) > 0 THEN Frac(Len(inRange), Len(counted)) ELSE Frac(1, 2)

\* _calcDataQuality: the sample-size score of a benchmark, in tenths
sampleScore(n) ==
    IF n >= 30 THEN 10 ELSE IF n >= 15 THEN 8 ELSE IF n >= 5 THEN 6
    ELSE IF n > 0 THEN 4 ELSE 2

calcDataQuality(acts, benchmarks) ==
    IF Len(acts) > 0
    THEN Frac(SumSeq([k \in DOMAIN acts |-> sampleScore(benchmarks[acts[k].activityType].n)]),
              10 * Len(acts))
    ELSE Frac(1, 5)

\* _getDescriptor(composite)
getDescriptor(composite) ==
    LET unit == composite.den \div 100
    IN IF composite.num >= 80 * unit THEN "HIGH"
       ELSE IF composite.num >= 65 * unit THEN "MOD-HIGH"
       ELSE IF composite.num >= 50 * unit THEN "MODERATE"
       ELSE "LOW"

\* an empty result that scores like the sub-scores' fallbacks
emptyResultModerate ==
    [prodReliability |-> Frac(1, 2), benchAlignment |-> Frac(1, 2),
     scopeDefinition |-> Frac(1, 2), dataQuality |-> Frac(1, 2),
     composite |-> Frac(50, 100), descriptor |-> "MODERATE"]

\* _emptyResult()
emptyResult ==
    [prodReliability |-> Frac(0, 1), benchAlignment |-> Frac(0, 1),
     scopeDefinition |-> Frac(0, 1), dataQuality |-> Frac(0, 1),
     composite |-> Frac(0, 100), descriptor |-> "LOW"]

\* calculateConfidence({ activities, jobMode })
calculateConfidence(ars, jobMode) ==
    LET activeActivities == Active(ars)
        p == calcProductionReliability(activeActivities)
        b == calcBenchmarkAlignment(activeActivities, benchmarksFor(jobMode))
        s == calcScopeDefinition(activeActivities, qtyRangesFor(jobMode))
        q == calcDataQuality(activeActivities, benchmarksFor(jobMode))
        restDen == b.den * s.den * q.den
        rest == b.num * CONFIDENCE_WEIGHTS.benchmarkAlignment * s.den * q.den
                + s.num * CONFIDENCE_WEIGHTS.scopeDefinition * b.den * q.den
                + q.num * CONFIDENCE_WEIGHTS.dataQuality * b.den * s.den
        composite ==
            Frac(p.num * CONFIDENCE_WEIGHTS.productionReliability * restDen + rest * p.den,
                 100 * p.den * restDen)
    IN IF Len(activeActivities) = 0 THEN emptyResult
       ELSE [prodReliability |-> p, benchAlignment |-> b, scopeDefinition |-> s,
             dataQuality |-> q, composite |-> composite,
             descriptor |-> getDescriptor(composite)]

\* what Calculator.calculate hands on when estimate.clusterMode is not set
Obs(activity, flag, status) == [activity |-> activity, flag |-> flag, status |-> status]

\* generateAnalysis, rules 1 and 2 for one active activity
perActivityRules(a, jobMode) ==
    LET range == qtyRangesFor(jobMode)[a.activityType]
        bm == benchmarksFor(jobMode)[a.activityType]
        status == getUnitCostStatus(a.unitCost, bm)
    IN (IF a.grossQuantity # 0 /\ a.grossQuantity < range.low
        THEN <<Obs(a.activityType, "SMALL_QTY", "INFO")>> ELSE << >>)
       \o (IF a.grossQuantity # 0 /\ a.grossQuantity > range.high
           THEN <<Obs(a.activityType, "LARGE_QTY", "INFO")>> ELSE << >>)
       \o (IF FracPositive(a.unitCost) /\ status \in {"VERY_HIGH", "VERY_LOW"}
           THEN <<Obs(a.activityType, "UNIT_COST", "WARNING")>>
           ELSE IF FracPositive(a.unitCost) /\ status \in {"HIGH", "LOW"}
           THEN <<Obs(a.activityType, "UNIT_COST", "INFO")>> ELSE << >>)

Concat(s) ==
    LET cat[i \in 0..Len(s)] == IF i = 0 THEN << >> ELSE cat[i - 1] \o s[i]
    IN cat[Len(s)]

\* generateAnalysis, rule 5: the COMBO crew suggestion
comboRule(activeActivities, clusterResults) ==
    LET hasCombo == \E k \in DOMAIN activeActivities :
                        activeActivities[k].crewCode = "COMBO"
    IN IF clusterResults.returned /\ clusterResults.isCombo /\ ~hasCombo
       THEN <<Obs("global", "COMBO_AVAILABLE", "INFO")>> ELSE << >>

\* generateAnalysis, rule 8: the plant opening fee for a small HMA tonnage
plantOpeningRule(totalHMATons) ==
    IF totalHMATons # 0 /\ totalHMATons > 0 /\ totalHMATons < 100
    THEN <<Obs("global", "PLANT_OPENING", "INFO")>> ELSE << >>

\* generateAnalysis(snapshot): the rules that read quantities, costs, crew
\* codes, the job mode, the cluster results and the HMA tonnage (1, 2, 5, 7,
\* 8, 9, 10, 11); rules 3, 4 and 6 read threeTier and crew thresholds, which
\* no cost feeds
generateAnalysis(ars, jobMode, clusterResults, totalHMATons) ==
    LET activeActivities == Active(ars)
        benchmarks == benchmarksFor(jobMode)
        directTotal == SumSeq([k \in DOMAIN activeActivities |-> activeActivities[k].directCost])
        statuses == SelectSeq(activeActivities, LAMBDA a : FracPositive(a.unitCost))
        highCount == Len(SelectSeq(statuses, LAMBDA a :
                        getUnitCostStatus(a.unitCost, benchmarks[a.activityType])
                            \in {"HIGH", "VERY_HIGH"}))
        lowCount == Len(SelectSeq(statuses, LAMBDA a :
                        getUnitCostStatus(a.unitCost, benchmarks[a.activityType])
                            \in {"LOW", "VERY_LOW"}))
    IN Concat([k \in DOMAIN activeActivities |->
                  perActivityRules(activeActivities[k], jobMode)])
       \o comboRule(activeActivities, clusterResults)
       \o (IF jobMode = "roadway" /\ (~clusterResults.returned \/ clusterResults.safetyCost <= 0)
           THEN <<Obs("global", "SAFETY_MISSING", "WARNING")>> ELSE << >>)
       \o plantOpeningRule(totalHMATons)
       \o (IF clusterResults.returned /\ clusterResults.totalMobCost > 0 /\ directTotal > 0
              /\ clusterResults.totalMobCost * 100 > 15 * directTotal
           THEN <<Obs("global", "MOB_HIGH", "WARNING")>> ELSE << >>)
       \o (IF Len(statuses) >= 3 /\ highCount >= 3
           THEN <<Obs("global", "SYSTEMIC_HIGH", "WARNING")>> ELSE << >>)
       \o (IF Len(statuses) >= 3 /\ lowCount >= 3
           THEN <<Obs("global", "SYSTEMIC_LOW", "WARNING")>> ELSE << >>)
       \o Concat([k \in DOMAIN activeActivities |->
              LET a == activeActivities[k]
              IN IF a.activityType \in TruckedTypes /\ a.truckingCost = 0
                    /\ a.grossQuantity > 0
                 THEN <<Obs(a.activityType, "NO_TRUCKING", "INFO")>> ELSE << >>])

-----------------------------------------------------------------------------
(* Three-tier production (engine/ThreeTier.js).  A multiplier and a          *)
(* productivity factor are counted in hundredths; every figure of a tier is  *)
(* a fraction [num, den], and a fraction with den = 0 is a Number that is    *)
(* not finite: Infinity (num > 0) or NaN (num = 0).                          *)

\* multipliers that speed the conservative tier up and slow the aggressive down
TIER_MULTIPLIERS_Swapped == [conservative |-> 120, standard |-> 100, aggressive |-> 80]
TIER_MULTIPLIERS == [conservative |-> 80, standard |-> 100, aggressive |-> 120]
Tiers == <<"conservative", "standard", "aggressive">>

Whole(n) == Frac(n, 1)
Infinity == Frac(1, 0)
NaN == Frac(0, 0)
IsFinite(x) == x.den # 0

\* x >= y for two finite fractions with positive denominators
FracGeq(x, y) == x.num * y.den >= y.num * x.den

\* the tier calcThreeTier returns when quantity or rate is missing
emptyTier ==
    [rawDays |-> Whole(0), rawHours |-> Whole(0),
     optimized |-> [hours |-> Whole(0), days |-> Whole(0), hustle |-> FALSE]]

\* optimizeShifts(Infinity, stdShift, maxShift): fullDays is Infinity, the
\* remainder Infinity - Infinity is NaN, every comparison with it is false and
\* the candidate with one more partial day is returned
optimizedOfInfinity ==
    [hours |-> NaN, days |-> Infinity, hustle |-> FALSE]

\* the body of the loop of calcThreeTier for one multiplier
tierOf(grossQty, prodPerDay, productivityFactor, mult, stdShift, maxShift) ==
    LET rateDen == prodPerDay * productivityFactor * mult
        o == optimizeShifts(grossQty * 10000 * stdShift, rateDen, stdShift, maxShift, 1)
    IN IF rateDen = 0
       THEN [rawDays |-> Infinity, rawHours |-> Infinity,
             optimized |-> optimizedOfInfinity]
       ELSE [rawDays |-> Reduced(grossQty * 10000, rateDen),
             rawHours |-> Reduced(grossQty * 10000 * stdShift, rateDen),
             optimized |-> [hours |-> Whole(o.hours), days |-> Whole(o.days),
                            hustle |-> o.hustle]]

\* calcThreeTier(grossQty, prodPerDay, productivityFactor, stdShift, maxShift)
calcThreeTier(grossQty, prodPerDay, productivityFactor, stdShift, maxShift) ==
    IF grossQty = 0 \/ prodPerDay <= 0
    THEN [t \in SeqToSet(Tiers) |-> emptyTier]
    ELSE [t \in SeqToSet(Tiers) |->
             tierOf(grossQty, prodPerDay, productivityFactor,
                    TIER_MULTIPLIERS[t], stdShift, maxShift)]

\* activity.threeTier before Calculator.calculate has set it (undefined)
NoThreeTier == [isUndefined |-> TRUE, tiers |-> [t \in SeqToSet(Tiers) |-> emptyTier]]

\* a Phase 2 that depends on what an earlier call left on the activity: the
\* tiers are assigned when it has none, and removed when it has
phase2ThreeTierOnce(a, shiftSettings) ==
    IF duration(a) > 0 /\ a.threeTier.isUndefined
    THEN [a EXCEPT !.threeTier =
             [isUndefined |-> FALSE,
              tiers |-> calcThreeTier(a.grossQuantity, a.outputQty,
                                      IF a.composite = 0 THEN 100 ELSE a.composite,
                                      4 * shiftSettings.stdShift,
                                      4 * shiftSettings.maxShift)]]
    ELSE [a EXCEPT !.threeTier = NoThreeTier]

\* Calculator.calculate Phase 2 for one activity: threeTier is assigned only
\* when the activity has a duration; shift lengths are given in hours
phase2ThreeTier(a, shiftSettings) ==
    IF duration(a) > 0
    THEN [a EXCEPT !.threeTier =
             [isUndefined |-> FALSE,
              tiers |-> calcThreeTier(a.grossQuantity, a.outputQty,
                                      IF a.composite = 0 THEN 100 ELSE a.composite,
                                      4 * shiftSettings.stdShift,
                                      4 * shiftSettings.maxShift)]]
    ELSE a

InitThreeTier ==
    /\ activities = << >>
    /\ scheduleResults = << >>
    /\ warnings = 0
    /\ shiftInput = NoShiftInput
    /\ shiftPlan = NoPlan
    /\ tierInput \in [grossQty : 0..MaxGrossQty, prodPerDay : 0..MaxProdPerDay,
                       productivityFactor : ProductivityChoices,
                       stdShift : ShiftChoices, maxShift : ShiftChoices]
    /\ threeTier = << >>
    /\ estimate = NoEstimate
    /\ truckingRate = 0
    /\ results = NoResults
    /\ indirectCalls = << >>
    /\ runs = 0
    /\ simulation = NoSimulation
    /\ simulated = NoSimulated
    /\ benchmarkInput = NoBenchmarkInput
    /\ unitStatus = NoUnitStatus
    /\ clusterInput = NoClusterInput
    /\ clustered = NoClustered
    /\ calculatedAt = 0
    /\ previous = NoPrevious
    /\ params = NoParams
    /\ pc = "input"

\* calcThreeTier called with the input
CalcThreeTier ==
    /\ pc = "input"
    /\ threeTier' = calcThreeTier(tierInput.grossQty, tierInput.prodPerDay,
                                  tierInput.productivityFactor,
                                  tierInput.stdShift, tierInput.maxShift)
    /\ pc' = "tiered"
    /\ UNCHANGED <<cpmVars, shiftVars, tierInput, simVars, checkVars, clusterVars, params, repeatVars, pipelineVars>>

NextThreeTier == CalcThreeTier

SpecThreeTier == InitThreeTier /\ [][NextThreeTier]_vars

-----------------------------------------------------------------------------
(* Calendar duration (engine/CalendarDuration.js); days are whole, the       *)
(* schedule is in ticks                                                      *)

\* a.earlyFinish || a.duration
finishOf(ar) == IF ar.earlyFinish = 0 THEN ar.duration ELSE ar.earlyFinish

\* Math.max over the finishes of the active activities
RECURSIVE lastFinish(_)
lastFinish(ars) ==
    IF ars = << >> THEN 0 ELSE Max(finishOf(Head(ars)), lastFinish(Tail(ars)))

\* the activities at work on a day (days are counted from 0)
dayActivities(active, day) ==
    LET working == SelectSeq(active, LAMBDA a :
                       /\ a.earlyStart < TicksPerDay * (day + 1)
                       /\ finishOf(a) > TicksPerDay * day)
    IN [k \in DOMAIN working |-> working[k].id]

\* calculateCalendarDuration(scheduleResults, activities, weatherDays)
calculateCalendarDuration(ars, weatherDays) ==
    LET active == SelectSeq(ars, LAMBDA a : a.duration > 0)
        workDays == CeilDiv(lastFinish(active), TicksPerDay)
    IN IF active = << >>
       THEN [timeline |-> << >>, workDays |-> 0, weatherDays |-> weatherDays,
             totalDays |-> weatherDays]
       ELSE [timeline |->
                [d \in 1..workDays |->
                    [day |-> d, type |-> "work", activities |-> dayActivities(active, d - 1)]]
                \o [w \in 1..weatherDays |->
                    [day |-> workDays + w, type |-> "weather", activities |-> << >>]],
             workDays |-> workDays, weatherDays |-> weatherDays,
             totalDays |-> workDays + weatherDays]

-----------------------------------------------------------------------------
(* Monte Carlo simulation (engine/MonteCarlo.js).  A weight is counted in    *)
(* hundredths.  Math.random is a choice among the values a sample can take;  *)
(* the variables the model draws make every sampled cost a whole amount.     *)

\* the values samplePERT(min, mostLikely, max) can return: min when min = max,
\* mostLikely when min > max, else a value from min up to, never at, max
samplePERT(min, mostLikely, max) ==
    IF min = max THEN {min}
    ELSE IF min >= max THEN {mostLikely}
    ELSE {min + k * ((max - min) \div SampleSteps) : k \in 0..(SampleSteps - 1)}

\* a ratio of 0 for a variable whose mostLikely is not positive
sampledCostZeroRatio(v, baseEstimate, sampled) ==
    IF v.mostLikely > 0
    THEN (v.weight * baseEstimate * sampled) \div (100 * v.mostLikely)
    ELSE 0

\* (v.weight * baseEstimate) * ratio for a sampled value
sampledCost(v, baseEstimate, sampled) ==
    IF v.mostLikely > 0
    THEN (v.weight * baseEstimate * sampled) \div (100 * v.mostLikely)
    ELSE (v.weight * baseEstimate) \div 100

\* the ascending sort of _analyze, by insertion
RECURSIVE sortAscending(_)
sortAscending(s) ==
    IF s = << >> THEN << >>
    ELSE LET rest == sortAscending(Tail(s))
             before == SelectSeq(rest, LAMBDA x : x <= Head(s))
             after == SelectSeq(rest, LAMBDA x : x > Head(s))
         IN before \o <<Head(s)>> \o after

\* Math.round(a / n) for a >= 0
RoundDiv(a, n) == (2 * a + n) \div (2 * n)

\* _analyze(results): iterations, mean, the median and the sorted
\* distribution (the other percentiles and stdDev are left out); with no
\* result the mean 0 / 0 is NaN and results[0] is undefined
analyze(res) ==
    LET sorted == sortAscending(res)
        n == Len(res)
    IN [iterations |-> n,
        mean |-> IF n = 0 THEN NaN ELSE Whole(RoundDiv(SumSeq(sorted), n)),
        p50 |-> IF n = 0 THEN NaN ELSE Whole(sorted[(n \div 2) + 1]),
        distribution |-> sorted]

\* the variables of a run: degenerate at 100 and at 0, spread around 100, and
\* with min above max
VariableChoices ==
    {[min |-> r[1], mostLikely |-> r[2], max |-> r[3], weight |-> w] :
        r \in {<<100, 100, 100>>, <<0, 0, 0>>, <<60, 100, 140>>, <<140, 100, 60>>},
        w \in {50, 100}}

\* every value a sample of some variable can take
SampleValues == UNION {samplePERT(v.min, v.mostLikely, v.max) : v \in VariableChoices}

InitMonteCarlo ==
    /\ activities = << >>
    /\ scheduleResults = << >>
    /\ warnings = 0
    /\ shiftInput = NoShiftInput
    /\ shiftPlan = NoPlan
    /\ tierInput = NoTierInput
    /\ threeTier = << >>
    /\ estimate = NoEstimate
    /\ truckingRate = 0
    /\ results = NoResults
    /\ indirectCalls = << >>
    /\ runs = 0
    /\ \E n \in 1..MaxVariables :
          simulation \in [iterations : 0..MaxIterations, baseEstimate : {1000},
                          variables : [1..n -> VariableChoices]]
    /\ simulated = NoSimulated
    /\ benchmarkInput = NoBenchmarkInput
    /\ unitStatus = NoUnitStatus
    /\ clusterInput = NoClusterInput
    /\ clustered = NoClustered
    /\ calculatedAt = 0
    /\ previous = NoPrevious
    /\ params = NoParams
    /\ pc = "run"

\* one iteration of the loop of run: every variable is sampled, and the
\* total cost is pushed
Iterate ==
    /\ pc = "run"
    /\ Len(simulated.results) < simulation.iterations
    /\ \E sampled \in [DOMAIN simulation.variables -> SampleValues] :
          /\ \A k \in DOMAIN simulation.variables :
                sampled[k] \in samplePERT(simulation.variables[k].min,
                                          simulation.variables[k].mostLikely,
                                          simulation.variables[k].max)
          /\ simulated' = [simulated EXCEPT !.results = Append(@,
                SumSeq([k \in DOMAIN simulation.variables |->
                           sampledCost(simulation.variables[k],
                                       simulation.baseEstimate, sampled[k])]))]
    /\ UNCHANGED <<cpmVars, shiftVars, tierVars, pipelineVars, checkVars, clusterVars, params, repeatVars, simulation, pc>>

\* the loop has ended: run returns this._analyze(results)
Analyze ==
    /\ pc = "run"
    /\ Len(simulated.results) = simulation.iterations
    /\ simulated' = [simulated EXCEPT !.returned = analyze(simulated.results)]
    /\ pc' = "analyzed"
    /\ UNCHANGED <<cpmVars, shiftVars, tierVars, pipelineVars, checkVars, clusterVars, params, repeatVars, simulation>>

NextMonteCarlo == Iterate \/ Analyze

SpecMonteCarlo == InitMonteCarlo /\ [][NextMonteCarlo]_vars

-----------------------------------------------------------------------------
(* Estimate (models/Estimate.js) and the settings Calculator.calculate reads  *)
(* from it                                                                    *)

\* new Estimate(p): the constructor takes id, projectName, version,
\* activities, workPackages, timeUnit, indirectCosts, riskRegister,
\* projectSettings and rateLibrary from its parameter and assigns these;
\* any other property of the parameter is left out of the object
Estimate(p) == [NoEstimate EXCEPT !.indirectCosts = p.indirectCosts]

\* the settings buildEstimateFromUI passes to new Estimate
ParamsChoices ==
    [jobMode : {"parking_lot", "roadway"},
     shiftSettings : {[isNull |-> FALSE, stdShift |-> 8, maxShift |-> 12],
                      [isNull |-> FALSE, stdShift |-> 10, maxShift |-> 12]},
     clusterMode : BOOLEAN,
     travelHours : {1, 2},
     weatherDays : {0, 2, 5},
     indirectCosts : {NoIndirectCosts}]

InitEstimate ==
    /\ activities = << >>
    /\ scheduleResults = << >>
    /\ warnings = 0
    /\ shiftInput = NoShiftInput
    /\ shiftPlan = NoPlan
    /\ tierInput = NoTierInput
    /\ threeTier = << >>
    /\ estimate = NoEstimate
    /\ truckingRate = 0
    /\ results = NoResults
    /\ indirectCalls = << >>
    /\ runs = 0
    /\ simulation = NoSimulation
    /\ simulated = NoSimulated
    /\ benchmarkInput = NoBenchmarkInput
    /\ unitStatus = NoUnitStatus
    /\ clusterInput = NoClusterInput
    /\ clustered = NoClustered
    /\ calculatedAt = 0
    /\ previous = NoPrevious
    /\ params \in ParamsChoices
    /\ pc = "form"

\* buildEstimateFromUI: estimate = new Estimate({..., jobMode, shiftSettings,
\* weatherDays, travelHours, clusterMode, ...})
BuildEstimateFromUI ==
    /\ pc = "form"
    /\ estimate' = Estimate(params)
    /\ pc' = "built"
    /\ UNCHANGED <<cpmVars, shiftVars, tierVars, simVars, checkVars, clusterVars, params, repeatVars,
                   truckingRate, results, indirectCalls, runs>>

\* Calculator.calculate, up to const { stdShift, maxShift } =
\* estimate.shiftSettings, which raises TypeError on undefined
CalculateReadsSettings ==
    /\ pc = "built"
    /\ pc' = IF estimate.shiftSettings.isNull THEN "raised" ELSE "read"
    /\ UNCHANGED <<cpmVars, shiftVars, tierVars, simVars, checkVars, clusterVars, params, repeatVars,
                   pipelineVars>>

NextEstimate == BuildEstimateFromUI \/ CalculateReadsSettings

SpecEstimate == InitEstimate /\ [][NextEstimate]_vars

-----------------------------------------------------------------------------
(* Crew clustering (the clustering engine, data/paving-defaults.js).  Rates  *)
(* are in cents an hour; durations and finishes are in ticks.               *)

\* CREW_CLUSTERS
CREW_CLUSTERS ==
    [earthwork |-> [activities |-> <<"excavation", "fine_grading", "dga_base">>,
                    mobCrew |-> "MOBS", desc |-> "Earthwork"],
     milling |-> [activities |-> <<"milling">>, mobCrew |-> "MOBL", desc |-> "Milling"],
     paving |-> [activities |-> <<"paving_base", "paving_surface", "tack_coat">>,
                 mobCrew |-> "MOBL", desc |-> "Paving"],
     combo |-> [activities |-> <<"milling", "paving_base", "paving_surface", "tack_coat">>,
                mobCrew |-> "MOBL", desc |-> "Mill + Pave Combo"]]

\* CREW_DATA, the mobilization and safety crews
CREW_DATA == [MOBL |-> [rate |-> 29725], MOBS |-> [rate |-> 18873], SAFE |-> [rate |-> 13039]]

\* the activity types of the program, in the order the estimate lists them
ClusterTypes ==
    <<"excavation", "fine_grading", "dga_base", "milling",
      "paving_base", "paving_surface", "tack_coat">>

\* new Set(activities.filter(a => a.duration > 0).map(a => a.activityType))
activeTypesOf(acts) == {acts[i].activityType : i \in {k \in DOMAIN acts : acts[k].duration > 0}}

\* a combo is detected on milling with base paving only
hasMillAndPaveBaseOnly(activeTypes) ==
    "milling" \in activeTypes /\ "paving_base" \in activeTypes

\* hasMillAndPave
hasMillAndPave(activeTypes) ==
    "milling" \in activeTypes
        /\ ("paving_base" \in activeTypes \/ "paving_surface" \in activeTypes)

NoOverride == [isNull |-> TRUE, activities |-> << >>]

\* _buildCluster(key, def, activities, activeTypes, overrideActivities)
buildCluster(key, def, acts, activeTypes, overrideActivities) ==
    LET clusterActivities ==
            IF overrideActivities.isNull
            THEN SelectSeq(def.activities, LAMBDA at : at \in activeTypes)
            ELSE overrideActivities.activities
        counted == SelectSeq(acts, LAMBDA a :
                       a.activityType \in SeqToSet(clusterActivities) /\ a.duration > 0)
    IN [id |-> key, desc |-> def.desc, mobCrew |-> def.mobCrew,
        activities |-> clusterActivities,
        totalDays |-> SumSeq([k \in DOMAIN counted |-> counted[k].duration])]

\* the clusters clusterize builds, before their mobilization costs
clustersOf(acts) ==
    LET activeTypes == activeTypesOf(acts)
        built(key) == buildCluster(key, CREW_CLUSTERS[key], acts, activeTypes, NoOverride)
        first == IF hasMillAndPave(activeTypes)
                 THEN SelectSeq(<<built("combo")>>, LAMBDA c : Len(c.activities) > 0)
                 ELSE SelectSeq(<<built("milling"), built("paving")>>,
                                LAMBDA c : Len(c.activities) > 0)
        assignedActivities == UNION {SeqToSet(first[i].activities) : i \in DOMAIN first}
        earthworkActivities ==
            SelectSeq(CREW_CLUSTERS.earthwork.activities,
                      LAMBDA at : at \in activeTypes /\ at \notin assignedActivities)
    IN IF Len(earthworkActivities) > 0
       THEN Append(first, buildCluster("earthwork", CREW_CLUSTERS.earthwork, acts, activeTypes,
                                       [isNull |-> FALSE, activities |-> earthworkActivities]))
       ELSE first

\* the longest earlyFinish || duration of the active activities
totalWorkDaysOf(acts) ==
    MaxOf({0} \cup {IF acts[k].earlyFinish # 0 THEN acts[k].earlyFinish ELSE acts[k].duration :
                       k \in {j \in DOMAIN acts : acts[j].duration > 0}})

\* clusterize(activities, jobMode, travelHours)
clusterize(acts, jobMode, travelHours) ==
    IF activeTypesOf(acts) = {}
    THEN [returned |-> TRUE, clusters |-> << >>, hasTotals |-> FALSE, totalMobCost |-> 0,
          safetyCost |-> 0, totalMobAndSafety |-> 0, isCombo |-> FALSE]
    ELSE LET clusters == clustersOf(acts)
             mobCosts == [i \in DOMAIN clusters |->
                 [id |-> clusters[i].id, desc |-> clusters[i].desc,
                  mobCrew |-> clusters[i].mobCrew, activities |-> clusters[i].activities,
                  totalDays |-> clusters[i].totalDays,
                  mobCost |-> 2 * travelHours * CREW_DATA[clusters[i].mobCrew].rate]]
             hoursPerDay == 8
             safetyCost == IF jobMode = "roadway"
                           THEN (totalWorkDaysOf(acts) * hoursPerDay * CREW_DATA.SAFE.rate)
                                    \div TicksPerDay
                           ELSE 0
             totalMobCost == SumSeq([i \in DOMAIN mobCosts |-> mobCosts[i].mobCost])
         IN [returned |-> TRUE, clusters |-> mobCosts, hasTotals |-> TRUE,
             totalMobCost |-> totalMobCost, safetyCost |-> safetyCost,
             totalMobAndSafety |-> totalMobCost + safetyCost,
             isCombo |-> hasMillAndPave(activeTypesOf(acts))]

\* the durations of the activities of a clusterize call, in ticks: none, one
\* day, a day and a half
ClusterDurationChoices == {0, 2, 3}

\* The activities a clusterize call is given: each type of the program is
\* absent (-1) or present with one of the durations, starting on day 0.
ClusterActivities(days) ==
    LET all == [i \in DOMAIN ClusterTypes |->
                   [id |-> ClusterTypes[i], activityType |-> ClusterTypes[i],
                    duration |-> days[i], earlyStart |-> 0, earlyFinish |-> days[i]]]
    IN SelectSeq(all, LAMBDA a : a.duration >= 0)

InitCluster ==
    /\ activities = << >>
    /\ scheduleResults = << >>
    /\ warnings = 0
    /\ shiftInput = NoShiftInput
    /\ shiftPlan = NoPlan
    /\ tierInput = NoTierInput
    /\ threeTier = << >>
    /\ estimate = NoEstimate
    /\ truckingRate = 0
    /\ results = NoResults
    /\ indirectCalls = << >>
    /\ runs = 0
    /\ simulation = NoSimulation
    /\ simulated = NoSimulated
    /\ benchmarkInput = NoBenchmarkInput
    /\ unitStatus = NoUnitStatus
    /\ \E days \in [DOMAIN ClusterTypes -> {-1} \cup ClusterDurationChoices],
          jobMode \in {"parking_lot", "roadway"}, stdShift \in {8, 10} :
          clusterInput = [activities |-> ClusterActivities(days), jobMode |-> jobMode,
                          travelHours |-> 1, stdShift |-> stdShift]
    /\ clustered = NoClustered
    /\ calculatedAt = 0
    /\ previous = NoPrevious
    /\ params = NoParams
    /\ pc = "cluster"

\* one call of clusterize
Clusterize ==
    /\ pc = "cluster"
    /\ ~clustered.returned
    /\ clustered' = clusterize(clusterInput.activities, clusterInput.jobMode,
                               clusterInput.travelHours)
    /\ UNCHANGED <<cpmVars, shiftVars, tierVars, simVars, pipelineVars, checkVars,
                   clusterInput, params, repeatVars, pc>>

NextCluster == Clusterize

SpecCluster == InitCluster /\ [][NextCluster]_vars

-----------------------------------------------------------------------------
(* Calculator.calculate (engine/Calculator.js) and                          *)
(* calculateWithTruckingOverrides (the main controller)                     *)

\* the unit cost of an activity result: productionCost / unitDenominator, 0
\* when the denominator is not positive
unitCostOf(productionCost, a, jobMode) ==
    LET useCY == benchmarksFor(jobMode)[a.activityType].unit = "CY"
        unitDenominator == IF useCY THEN a.grossQuantity
                           ELSE IF a.area # 0 THEN a.area ELSE a.grossQuantity
    IN IF unitDenominator > 0 THEN Frac(productionCost, unitDenominator) ELSE Frac(0, 1)

unitCostUOMOf(a, jobMode) ==
    IF benchmarksFor(jobMode)[a.activityType].unit = "CY" THEN "CY" ELSE "SY"

\* activity.crewCode: no code under src/ assigns it, whatever the crew
crewCodeOf(a) == "undefined"

\* activity.quantity._derivedQuantities?.tonsWithWaste: Quantity has no
\* _derivedQuantities and no code under src/ assigns one; the tonnage of a
\* paving activity is kept in activity._extra
derivedTonsWithWaste(a) == 0

\* Phase 4: the HMA tonnage tracked for the plant opening fee check
totalHMATonsOf(acts) ==
    SumSeq([i \in DOMAIN acts |->
               IF acts[i].activityType \in {"paving_base", "paving_surface"}
               THEN derivedTonsWithWaste(acts[i]) ELSE 0])

\* Phase 5: clusterize(activityResults, estimate.jobMode, estimate.travelHours)
\* when estimate.clusterMode is set (travelHours defaults to 1)
clusterResultsOf(est, ars) ==
    IF est.clusterMode
    THEN clusterize(ars, est.jobMode, IF est.travelHours = 0 THEN 1 ELSE est.travelHours)
    ELSE NoClusterResults

\* Phase 4: the result record of one activity
activityResult(a, rate, sched, critical, jobMode) ==
    LET trk == calculateTrucking(a, rate)
        scheduled == a.id \in DOMAIN sched
    IN [id |-> a.id, activityType |-> a.activityType, grossQuantity |-> a.grossQuantity,
        duration |-> duration(a),
        laborCost |-> laborCost(a), equipmentCost |-> equipmentCost(a),
        materialCost |-> materialCost(a), mobilizationCost |-> mobilizationCost(a),
        truckingCost |-> trk.truckCost,
        directCost |-> fadd(directCost(a), trk.truckCost),
        unitCost |-> unitCostOf(fadd(fadd(fadd(laborCost(a), equipmentCost(a)),
                                          materialCost(a)), trk.truckCost), a, jobMode),
        unitCostUOM |-> unitCostUOMOf(a, jobMode),
        trucks |-> trk.trucks, truckHours |-> trk.truckHours,
        earlyStart |-> IF scheduled THEN sched[a.id].earlyStart ELSE 0,
        earlyFinish |-> IF scheduled THEN sched[a.id].earlyFinish ELSE 0,
        totalFloat |-> IF scheduled THEN sched[a.id].totalFloat ELSE 0,
        isCritical |-> a.id \in critical,
        crewCode |-> crewCodeOf(a),
        threeTier |-> a.threeTier]

\* Phase 4: activity results and cost aggregates
aggregateCosts(acts, rate, sched, jobMode) ==
    LET critical == SeqToSet(criticalPath(acts, sched))
        ars == [i \in 1..Len(acts) |-> activityResult(acts[i], rate, sched, critical, jobMode)]
        totalLaborCost == FSumSeq([k \in DOMAIN ars |-> ars[k].laborCost])
        totalEquipmentCost == FSumSeq([k \in DOMAIN ars |-> ars[k].equipmentCost])
        totalMaterialCost == FSumSeq([k \in DOMAIN ars |-> ars[k].materialCost])
        totalTruckingCost == FSumSeq([k \in DOMAIN ars |-> ars[k].truckingCost])
        totalMobilizationCost == FSumSeq([k \in DOMAIN ars |-> ars[k].mobilizationCost])
    IN [NoResults EXCEPT
          !.activities = ars,
          !.projectDuration = projectDuration(sched),
          !.criticalPath = criticalPath(acts, sched),
          !.totalLaborCost = totalLaborCost,
          !.totalEquipmentCost = totalEquipmentCost,
          !.totalMaterialCost = totalMaterialCost,
          !.totalTruckingCost = totalTruckingCost,
          !.totalMobilizationCost = totalMobilizationCost,
          !.totalTruckHours = FSumSeq([k \in DOMAIN ars |-> ars[k].truckHours]),
          !.totalActivityDays = SumSeq([k \in DOMAIN ars |-> ars[k].duration]),
          !.totalHMATons = totalHMATonsOf(acts),
          !.directCostTotal =
              fadd(fadd(fadd(fadd(totalLaborCost, totalEquipmentCost), totalMaterialCost),
                        totalTruckingCost), totalMobilizationCost)]

\* a direct cost for the indirect costs that takes in mobilization and safety
directCostWithMobilization(res) == fadd(res.directCostTotal, res.mobAndSafety)

\* the direct cost handed to IndirectCosts.calculate: directCostTotal
directCostForIndirect(res) == res.directCostTotal

\* the record of one call of IndirectCosts.calculate
IndirectCall(caller, directCostArg, laborCostArg, days) ==
    [caller |-> caller, directCost |-> directCostArg, laborCost |-> laborCostArg,
     projectDurationDays |-> days]

\* the patch adds a recomputed amount to a running total
patchedTotalAdditive(total, new, old) == fadd(total, new)

\* the patch moves a running total by the difference the recomputation made
patchedTotal(total, new, old) == fadd(total, fsub(new, old))

\* the direct cost the patch gives a patched activity
patchedDirectCost(ar, truckCost) ==
    fadd(fadd(fadd(fadd(ar.laborCost, ar.equipmentCost), ar.materialCost),
              ar.mobilizationCost), truckCost)

\* whether the patch loop recomputes the trucking of an activity
overridden(activity, ar) ==
    /\ activity.truckingQuantityOverride # 0 /\ ~activity.trucking.isNull
    /\ ar.duration > 0 /\ activity.truckingQuantityOverride > 0

\* the body of the patch loop for the i-th activity result
patchActivity(res, acts, rate, jobMode, i) ==
    LET ar == res.activities[i]
        activity == ActivityById(acts, ar.id)
        trucks == trucksNeeded(activity.truckingQuantityOverride, ar.duration, activity.trucking)
        truckHours == truckHoursNeeded(trucks, ar.duration)
        truckCost == fmul(truckHours, rate)
    IN IF ~overridden(activity, ar) THEN res
       ELSE [res EXCEPT
               !.totalTruckingCost = patchedTotal(@, truckCost, ar.truckingCost),
               !.totalTruckHours = patchedTotal(@, truckHours, ar.truckHours),
               !.activities[i] =
                   [ar EXCEPT !.trucks = trucks, !.truckHours = truckHours,
                              !.truckingCost = truckCost,
                              !.directCost = patchedDirectCost(ar, truckCost),
                              !.unitCost = unitCostOf(
                                  fadd(fadd(fadd(ar.laborCost, ar.equipmentCost),
                                            ar.materialCost), truckCost), activity, jobMode),
                              !.unitCostUOM = unitCostUOMOf(activity, jobMode)]]

RECURSIVE patchLoop(_, _, _, _, _)
patchLoop(res, acts, rate, jobMode, i) ==
    IF i > Len(res.activities) THEN res
    ELSE patchLoop(patchActivity(res, acts, rate, jobMode, i), acts, rate, jobMode, i + 1)

\* the patch step: the loop over the activity results, then the direct cost
\* total derived again from them
patchTrucking(res, acts, rate, jobMode) ==
    LET patched == patchLoop(res, acts, rate, jobMode, 1)
        ars == patched.activities
        sum[i \in 0..Len(ars)] ==
            IF i = 0 THEN 0
            ELSE fadd(fadd(fadd(fadd(fadd(sum[i - 1], ars[i].laborCost), ars[i].equipmentCost),
                                ars[i].materialCost), ars[i].mobilizationCost),
                      ars[i].truckingCost)
    IN [patched EXCEPT !.directCostTotal = sum[Len(ars)]]

-----------------------------------------------------------------------------
(* The estimates given to the pipeline, and its run *)

\* activity type, gross quantity, area (0: no area input) and production rate
\* (0: no rate entered) of an activity
TypeAndQuantity ==
    {<<"excavation", 0, 0, 2>>, <<"excavation", 4, 0, 2>>, <<"milling", 4, 0, 2>>,
     <<"milling", 8, 10, 2>>, <<"milling", 4, 0, 0>>}

TruckingChoices(type) ==
    {NoTrucking,
     [isNull |-> FALSE, cycleTime |-> 30,
      truckCapacity |-> IF type = "excavation" THEN TRUCK_CY ELSE TRUCK_TONS,
      efficiency |-> 90]}

\* _truckingQuantityOverride: unset, or the loose volume or tonnage to haul
OverrideChoices == {0, 4000}

MobilizationChoices == {[included |-> FALSE, cost |-> 0], [included |-> TRUE, cost |-> 50]}

TruckingRates == {0, 3}

PipelineActivities ==
    UNION {{[id |-> "", activityType |-> tq[1], grossQuantity |-> tq[2], area |-> tq[3],
             outputQty |-> tq[4], composite |-> 100, dependencies |-> {},
             crew |-> [laborCostPerHour |-> 2, equipmentCostPerHour |-> 1],
             materialRate |-> IF tq[1] = "milling" THEN 3 ELSE 0,
             mobilization |-> m, trucking |-> t, truckingQuantityOverride |-> o,
             threeTier |-> NoThreeTier] :
               t \in TruckingChoices(tq[1]), o \in OverrideChoices, m \in MobilizationChoices} :
           tq \in TypeAndQuantity}

IndirectCostsChoices ==
    {[NoIndirectCosts EXCEPT !.generalConditions.superintendentPerDay = 100,
                             !.generalConditions.fieldOfficePerDay = 20,
                             !.feeProfitPct = 100],
     [NoIndirectCosts EXCEPT !.generalConditions.tempFacilitiesPerDay = 40,
                             !.generalConditions.cleanupLump = 30,
                             !.generalConditions.smallToolsPct = 100,
                             !.homeOfficeOverheadPct = 100,
                             !.bondsInsurance.bondRatePct = 100,
                             !.bondsInsurance.glInsurancePct = 100,
                             !.bondsInsurance.permitFeesLump = 10,
                             !.contingency.identifiedRisksTotal = 5,
                             !.contingency.unidentifiedAllowancePct = 1]}

\* an estimate that carries job mode and shift settings, and one on which
\* neither was ever set
EstimateChoices ==
    {[NoEstimate EXCEPT !.jobMode = m,
                        !.shiftSettings = [isNull |-> FALSE, stdShift |-> 8, maxShift |-> 12],
                        !.weatherDays = 2,
                        !.indirectCosts = ic] :
        m \in {"parking_lot", "roadway"}, ic \in IndirectCostsChoices}
    \cup {[NoEstimate EXCEPT !.indirectCosts = ic] : ic \in IndirectCostsChoices}

\* every activity after the first depends, finish to start, on the one before
Chained(acts) ==
    [i \in 1..Len(acts) |->
        IF i = 1 THEN acts[i]
        ELSE [acts[i] EXCEPT !.dependencies =
                 {[predecessorId |-> acts[i - 1].id, type |-> "FS", lag |-> 0]}]]

InitPipeline ==
    /\ \E n \in 0..MaxPipelineActivities :
       \E choice \in [1..n -> PipelineActivities], chain \in BOOLEAN :
          LET acts == [i \in 1..n |-> [choice[i] EXCEPT !.id = ActivityIds[i]]]
          IN activities = IF chain THEN Chained(acts) ELSE acts
    /\ estimate \in EstimateChoices
    /\ truckingRate \in TruckingRates
    /\ scheduleResults = << >>
    /\ warnings = 0
    /\ shiftInput = NoShiftInput
    /\ shiftPlan = NoPlan
    /\ tierInput = NoTierInput
    /\ threeTier = << >>
    /\ results = NoResults
    /\ indirectCalls = << >>
    /\ runs = 1
    /\ simulation = NoSimulation
    /\ simulated = NoSimulated
    /\ benchmarkInput = NoBenchmarkInput
    /\ unitStatus = NoUnitStatus
    /\ clusterInput = NoClusterInput
    /\ clustered = NoClustered
    /\ calculatedAt = 0
    /\ previous = NoPrevious
    /\ params = NoParams
    /\ pc = "start"

\* Calculator.calculate up to Phase 2: reading estimate.shiftSettings throws
\* when the estimate has none
PhaseActivities ==
    /\ pc = "start"
    /\ pc' = IF estimate.shiftSettings.isNull THEN "threw" ELSE "schedule"
    /\ activities' = IF estimate.shiftSettings.isNull THEN activities
                     ELSE [i \in DOMAIN activities |->
                              phase2ThreeTier(activities[i], estimate.shiftSettings)]
    /\ UNCHANGED <<scheduleResults, warnings, shiftVars, tierVars, simVars, checkVars, clusterVars, params, repeatVars, estimate,
                   truckingRate, results, indirectCalls, runs>>

\* Phase 3: new Scheduler(activities).run()
PhaseSchedule ==
    /\ pc = "schedule"
    /\ scheduleResults' = run(activities)
    /\ warnings' = IF Len(activities) > 0 /\ cycleDetected(activities) THEN 2 ELSE 0
    /\ pc' = "aggregate"
    /\ UNCHANGED <<activities, shiftVars, tierVars, simVars, checkVars, clusterVars, params, repeatVars, estimate, truckingRate, results, indirectCalls, runs>>

\* Phase 4: activity results and aggregates
PhaseAggregate ==
    /\ pc = "aggregate"
    /\ results' = aggregateCosts(activities, truckingRate, scheduleResults, estimate.jobMode)
    /\ pc' = "clustering"
    /\ UNCHANGED <<cpmVars, shiftVars, tierVars, simVars, checkVars, clusterVars, params, repeatVars, estimate, truckingRate, indirectCalls, runs>>

\* Phase 5: clustering, mobilization and safety when estimate.clusterMode is
\* set
PhaseCluster ==
    /\ pc = "clustering"
    /\ results' = [results EXCEPT
          !.clusterResults = clusterResultsOf(estimate, results.activities)]
    /\ pc' = "indirect"
    /\ UNCHANGED <<cpmVars, shiftVars, tierVars, simVars, checkVars, clusterVars, params, repeatVars, estimate, truckingRate, indirectCalls, runs>>

\* Phase 6: estimate.indirectCosts.calculate(...)
PhaseIndirect ==
    /\ pc = "indirect"
    /\ LET days == durationForIndirect(projectDuration(scheduleResults),
                                       results.totalActivityDays)
           labor == fadd(results.totalLaborCost, results.totalEquipmentCost)
       IN /\ indirectCalls' = Append(indirectCalls,
                 IndirectCall("calculate", directCostForIndirect(results), labor, days))
          /\ results' = [results EXCEPT !.indirect =
                 IndirectCostsCalculate(estimate.indirectCosts,
                                        directCostForIndirect(results), labor, days)]
    /\ pc' = "assess"
    /\ UNCHANGED <<cpmVars, shiftVars, tierVars, simVars, checkVars, clusterVars, params, repeatVars, estimate, truckingRate, runs>>

\* Phases 7 to 11: confidence, unit checks, analysis, the results object
PhaseAssess ==
    /\ pc = "assess"
    /\ results' = [results EXCEPT
          !.confidenceScore = calculateConfidence(results.activities, estimate.jobMode),
          !.unitChecks = unitChecksPhase8(results.activities, estimate.jobMode),
          !.analysisResults = generateAnalysis(results.activities, estimate.jobMode,
                                               results.clusterResults,
                                               results.totalHMATons),
          !.calendarDuration = calculateCalendarDuration(results.activities,
                                                         estimate.weatherDays),
          !.mobAndSafety = results.clusterResults.totalMobAndSafety]
    /\ estimate' = [estimate EXCEPT
          !.confidenceScore = results'.confidenceScore,
          !.analysisResults = results'.analysisResults,
          !.calendarDuration = results'.calendarDuration]
    /\ pc' = "calculated"
    /\ UNCHANGED <<cpmVars, shiftVars, tierVars, simVars, checkVars, clusterVars, params, repeatVars, truckingRate, indirectCalls, runs>>

\* calculateWithTruckingOverrides: the patch loop and the direct cost total
PatchTrucking ==
    /\ pc = "calculated"
    /\ results' = patchTrucking(results, activities, truckingRate, estimate.jobMode)
    /\ pc' = "patched"
    /\ UNCHANGED <<cpmVars, shiftVars, tierVars, simVars, checkVars, clusterVars, params, repeatVars, estimate, truckingRate, indirectCalls, runs>>

\* calculateWithTruckingOverrides: indirect costs, unit checks, confidence
\* and analysis calculated again
RecalculateDownstream ==
    /\ pc = "patched"
    /\ LET days == durationForIndirect(results.projectDuration, results.totalActivityDays)
           labor == fadd(results.totalLaborCost, results.totalEquipmentCost)
       IN /\ indirectCalls' = Append(indirectCalls,
                 IndirectCall("patch", directCostForIndirect(results), labor, days))
          /\ results' = [results EXCEPT
                !.indirect = IndirectCostsCalculate(estimate.indirectCosts,
                                 directCostForIndirect(results), labor, days),
                !.unitChecks = unitChecksPatched(results.activities, estimate.jobMode),
                !.confidenceScore = calculateConfidence(results.activities, estimate.jobMode),
                !.analysisResults = generateAnalysis(results.activities, estimate.jobMode,
                                                     results.clusterResults,
                                                     results.totalHMATons)]
    /\ estimate' = [estimate EXCEPT
          !.confidenceScore = results'.confidenceScore,
          !.analysisResults = results'.analysisResults]
    /\ pc' = "returned"
    /\ UNCHANGED <<cpmVars, shiftVars, tierVars, simVars, checkVars, clusterVars, params, repeatVars, truckingRate, runs>>

\* the form as the user has changed it since the last run: the first
\* activity's quantity cleared, the other job mode or the other trucking rate
FormChanges == {"quantity", "jobMode", "truckingRate"}

\* an Activity object that is kept from one call to the next
newActivityReused(row, old) == [row EXCEPT !.threeTier = old.threeTier]

\* the Activity buildEstimateFromUI constructs for a form row; old is the
\* Activity the previous call constructed for it
newActivity(row, old) == [row EXCEPT !.threeTier = NoThreeTier]

\* the Estimate buildEstimateFromUI constructs; old is the previous one
newEstimate(form, old) ==
    [form EXCEPT !.confidenceScore = NoEstimate.confidenceScore,
                 !.analysisResults = NoEstimate.analysisResults,
                 !.calendarDuration = NoEstimate.calendarDuration]

changedRow(a, i, change) ==
    IF change = "quantity" /\ i = 1
    THEN [a EXCEPT !.grossQuantity = 0, !.area = 0]
    ELSE a

changedJobMode(est, change) ==
    IF change = "jobMode" /\ est.jobMode # "undefined"
    THEN [est EXCEPT !.jobMode = IF @ = "roadway" THEN "parking_lot" ELSE "roadway"]
    ELSE est

\* calculateAll called again after a change of the form: buildEstimateFromUI
\* constructs a new Estimate with new Activity objects, and a new run starts;
\* the results of the last run stay until the new run has its own
CalculateAll ==
    /\ pc \in {"returned", "threw"}
    /\ runs < MaxRuns
    /\ \E change \in FormChanges :
          /\ activities' = [i \in DOMAIN activities |->
                               newActivity(changedRow(activities[i], i, change),
                                           activities[i])]
          /\ estimate' = newEstimate(changedJobMode(estimate, change), estimate)
          /\ truckingRate' = IF change = "truckingRate"
                             THEN CHOOSE r \in TruckingRates : r # truckingRate
                             ELSE truckingRate
    /\ scheduleResults' = << >>
    /\ warnings' = 0
    /\ indirectCalls' = << >>
    /\ runs' = runs + 1
    /\ pc' = "start"
    /\ UNCHANGED <<shiftVars, tierVars, simVars, checkVars, clusterVars, params, repeatVars, results>>

NextPipeline ==
    \/ PhaseActivities
    \/ PhaseSchedule
    \/ PhaseAggregate
    \/ PhaseCluster
    \/ PhaseIndirect
    \/ PhaseAssess
    \/ PatchTrucking
    \/ RecalculateDownstream
    \/ CalculateAll

SpecPipeline == InitPipeline /\ [][NextPipeline]_vars

\* Calculator.calculate(estimate, truckingRate) as one function of an estimate
\* that carries shift settings and of new activities
calculate(acts, est, rate) ==
    LET tiered == [i \in DOMAIN acts |-> phase2ThreeTier(acts[i], est.shiftSettings)]
        sched == run(tiered)
        aggregated == aggregateCosts(tiered, rate, sched, est.jobMode)
        clusterResults == clusterResultsOf(est, aggregated.activities)
        indirect == IndirectCostsCalculate(est.indirectCosts,
                        directCostForIndirect(
                            [aggregated EXCEPT
                                !.mobAndSafety = clusterResults.totalMobAndSafety]),
                        fadd(aggregated.totalLaborCost, aggregated.totalEquipmentCost),
                        durationForIndirect(projectDuration(sched),
                                            aggregated.totalActivityDays))
    IN [aggregated EXCEPT
           !.clusterResults = clusterResults,
           !.mobAndSafety = clusterResults.totalMobAndSafety,
           !.indirect = indirect,
           !.confidenceScore = calculateConfidence(aggregated.activities, est.jobMode),
           !.unitChecks = unitChecksPhase8(aggregated.activities, est.jobMode),
           !.analysisResults = generateAnalysis(aggregated.activities, est.jobMode,
                                                clusterResults, aggregated.totalHMATons),
           !.calendarDuration = calculateCalendarDuration(aggregated.activities,
                                                          est.weatherDays)]

\* calculateWithTruckingOverrides(est, truckingRate) as one function
calculateWithTruckingOverrides(acts, est, rate) ==
    LET patched == patchTrucking(calculate(acts, est, rate), acts, rate, est.jobMode)
        labor == fadd(patched.totalLaborCost, patched.totalEquipmentCost)
    IN [patched EXCEPT
           !.indirect = IndirectCostsCalculate(est.indirectCosts,
                            directCostForIndirect(patched), labor,
                            durationForIndirect(patched.projectDuration,
                                                patched.totalActivityDays)),
           !.unitChecks = unitChecksPatched(patched.activities, est.jobMode),
           !.confidenceScore = calculateConfidence(patched.activities, est.jobMode),
           !.analysisResults = generateAnalysis(patched.activities, est.jobMode,
                                                patched.clusterResults,
                                                patched.totalHMATons)]

\* Calculator.calculate called again on the same Estimate and Activity
\* objects.  The estimate carries shift settings; the clock of calculatedAt
\* may or may not have advanced between the two calls.
InitRepeat ==
    /\ \E n \in 0..MaxRepeatActivities :
       \E choice \in [1..n -> PipelineActivities] :
          activities = [i \in 1..n |-> [choice[i] EXCEPT !.id = ActivityIds[i]]]
    /\ estimate \in {e \in EstimateChoices : ~e.shiftSettings.isNull}
    /\ truckingRate \in TruckingRates
    /\ scheduleResults = << >>
    /\ warnings = 0
    /\ shiftInput = NoShiftInput
    /\ shiftPlan = NoPlan
    /\ tierInput = NoTierInput
    /\ threeTier = << >>
    /\ results = NoResults
    /\ indirectCalls = << >>
    /\ runs = 0
    /\ simulation = NoSimulation
    /\ simulated = NoSimulated
    /\ benchmarkInput = NoBenchmarkInput
    /\ unitStatus = NoUnitStatus
    /\ clusterInput = NoClusterInput
    /\ clustered = NoClustered
    /\ params = NoParams
    /\ calculatedAt = 0
    /\ previous = NoPrevious
    /\ pc = "start"

\* Calculator.calculate(estimate, truckingRate) has returned, and is called
\* again on the same objects: activity.threeTier, estimate.confidenceScore,
\* analysisResults and calendarDuration are as the last call left them; the
\* new results are stamped with new Date()
CalculateAgain ==
    /\ pc = "calculated"
    /\ runs < MaxRepeats
    /\ previous' = [returned |-> TRUE, results |-> results, calculatedAt |-> calculatedAt]
    /\ \E now \in {calculatedAt, calculatedAt + 1} : calculatedAt' = now
    /\ scheduleResults' = << >>
    /\ warnings' = 0
    /\ indirectCalls' = << >>
    /\ runs' = runs + 1
    /\ pc' = "start"
    /\ UNCHANGED <<activities, shiftVars, tierVars, simVars, checkVars, clusterVars, params,
                   estimate, truckingRate, results>>

NextRepeat ==
    \/ PhaseActivities
    \/ PhaseSchedule
    \/ PhaseAggregate
    \/ PhaseCluster
    \/ PhaseIndirect
    \/ PhaseAssess
    \/ CalculateAgain

SpecRepeat == InitRepeat /\ [][NextRepeat]_vars

-----------------------------------------------------------------------------
(* The milling and paving rows of the form, from buildEstimateFromUI to the  *)
(* analysis (part_001, Crew.js, Calculator.js, part_005).  An area is in     *)
(* SY, a tonnage in tons.                                                    *)

PavingTypes == <<"milling", "paving_base", "paving_surface">>

\* a row of the form: no area; an area and no production rate; an area, a
\* rate and, for a paving row, 30 or 120 tons of HMA with waste
RowChoices(type) ==
    IF type = "milling" THEN {"none", "idle", "active"}
    ELSE {"none", "idle", "small", "large"}

rowArea(row) == CASE row = "none" -> 0 [] row = "large" -> 8 [] OTHER -> 4

rowRate(row) == IF row \in {"none", "idle"} THEN 0 ELSE 2

\* ACTIVITY_CONFIG[type].quantityCalc(area, depth, wasteFactor).tonsWithWaste
rowTonsWithWaste(type, row) ==
    IF type = "milling" THEN 0
    ELSE CASE row = "none" -> 0 [] row = "large" -> 120 [] OTHER -> 30

\* Crew.detectCombo(activeTypes)
detectCombo(activeTypes) ==
    "milling" \in activeTypes
        /\ ("paving_base" \in activeTypes \/ "paving_surface" \in activeTypes)

\* the types whose area on the form is positive
formActiveTypes(rows) == {t \in DOMAIN rows : rowArea(rows[t]) > 0}

\* selectCrew(activityType, manualRate, ...): Crew.fromComposite for a manual
\* rate, Crew.fromCrewData('COMBO', ...) when COMBO is detected, else the crew
\* Crew.autoSelect picks
selectCrew(activityType, manualRate, useCombo) ==
    IF manualRate
    THEN [id |-> "C-MANUAL", laborCostPerHour |-> 2, equipmentCostPerHour |-> 1]
    ELSE IF useCombo /\ activityType \in {"milling", "paving_base", "paving_surface"}
    THEN [id |-> "C-COMBO", laborCostPerHour |-> 3, equipmentCostPerHour |-> 1]
    ELSE [id |-> "C-AUTO", laborCostPerHour |-> 2, equipmentCostPerHour |-> 1]

\* the Activity buildEstimateFromUI constructs for a milling or paving row
pavingActivity(i, form) ==
    LET type == PavingTypes[i]
        row == form.rows[type]
    IN [id |-> ActivityIds[i], activityType |-> type,
        grossQuantity |-> rowArea(row), area |-> rowArea(row),
        outputQty |-> rowRate(row), composite |-> 100, dependencies |-> {},
        crew |-> selectCrew(type, form.manualRate, detectCombo(formActiveTypes(form.rows))),
        materialRate |-> 1,
        mobilization |-> [included |-> FALSE, cost |-> 0],
        trucking |-> NoTrucking, truckingQuantityOverride |-> 0,
        extra |-> [tonsWithWaste |-> rowTonsWithWaste(type, row)],
        threeTier |-> NoThreeTier]

PavingForms ==
    [rows : [SeqToSet(PavingTypes) -> {"none", "idle", "active", "small", "large"}],
     manualRate : BOOLEAN,
     jobMode : {"parking_lot", "roadway"},
     clusterMode : BOOLEAN]

\* an Estimate on which the settings of the form are set
estimateWithSettings(form) ==
    [NoEstimate EXCEPT !.jobMode = form.jobMode,
                       !.shiftSettings = [isNull |-> FALSE, stdShift |-> 8, maxShift |-> 12],
                       !.clusterMode = form.clusterMode,
                       !.travelHours = 1,
                       !.weatherDays = 2]

InitPaving ==
    /\ params \in {f \in PavingForms : \A t \in DOMAIN f.rows : f.rows[t] \in RowChoices(t)}
    /\ activities = << >>
    /\ estimate = NoEstimate
    /\ truckingRate = 0
    /\ scheduleResults = << >>
    /\ warnings = 0
    /\ shiftInput = NoShiftInput
    /\ shiftPlan = NoPlan
    /\ tierInput = NoTierInput
    /\ threeTier = << >>
    /\ results = NoResults
    /\ indirectCalls = << >>
    /\ runs = 0
    /\ simulation = NoSimulation
    /\ simulated = NoSimulated
    /\ benchmarkInput = NoBenchmarkInput
    /\ unitStatus = NoUnitStatus
    /\ clusterInput = NoClusterInput
    /\ clustered = NoClustered
    /\ calculatedAt = 0
    /\ previous = NoPrevious
    /\ pc = "paving-form"

\* buildEstimateFromUI: the activities of the rows, and the Estimate either as
\* its constructor keeps the parameters or with the settings of the form set
BuildPavingEstimate ==
    /\ pc = "paving-form"
    /\ activities' = [i \in DOMAIN PavingTypes |-> pavingActivity(i, params)]
    /\ estimate' \in {Estimate([indirectCosts |-> ic]) : ic \in IndirectCostsChoices}
                      \cup {[estimateWithSettings(params) EXCEPT !.indirectCosts = ic] :
                                ic \in IndirectCostsChoices}
    /\ pc' = "start"
    /\ UNCHANGED <<scheduleResults, warnings, shiftVars, tierVars, simVars, checkVars,
                   clusterVars, params, repeatVars, truckingRate, results, indirectCalls,
                   runs>>

\* calculateAll: buildEstimateFromUI, then calculateWithTruckingOverrides with
\* the phases of Calculator.calculate, which raises when the estimate has no
\* shift settings
NextPaving ==
    \/ BuildPavingEstimate
    \/ PhaseActivities
    \/ PhaseSchedule
    \/ PhaseAggregate
    \/ PhaseCluster
    \/ PhaseIndirect
    \/ PhaseAssess
    \/ PatchTrucking
    \/ RecalculateDownstream

SpecPaving == InitPaving /\ [][NextPaving]_vars

-----------------------------------------------------------------------------
(* Claims about the Scheduler, checked under SpecCPM *)

Done == pc = "done"
Acyclic == ~cycleDetected(activities)
Act(id) == ActivityById(activities, id)
Res(id) == scheduleResults[id]
Day == TicksPerDay

\* the scenario of C1: x (2 days), y (3 days, FS successor of x, lag 0), z (4 days)
ThreeActivityScenario(x, y, z) ==
    /\ Ids(activities) = {x, y, z} /\ Cardinality({x, y, z}) = 3
    /\ duration(Act(x)) = 2 * Day /\ Act(x).dependencies = {}
    /\ duration(Act(y)) = 3 * Day
    /\ Act(y).dependencies = {[predecessorId |-> x, type |-> "FS", lag |-> 0]}
    /\ duration(Act(z)) = 4 * Day /\ Act(z).dependencies = {}

\* C1: on A (2 days), B (3 days, Finish-Start after A, lag 0) and C (4 days, no
\* dependencies) the run yields projectDuration 5 days, criticalPath {A, B}
\* and a total float of 1 day for C.
C1_ThreeActivityScenario ==
    Done => \A x, y, z \in Ids(activities) :
        ThreeActivityScenario(x, y, z) =>
            /\ projectDuration(scheduleResults) = 5 * Day
            /\ SeqToSet(criticalPath(activities, scheduleResults)) = {x, y}
            /\ Res(z).totalFloat = 1 * Day

C1_Witness ==
    /\ Done
    /\ ThreeActivityScenario("C", "A", "B")
    /\ projectDuration(scheduleResults) # projectDurationNaiveSum(scheduleResults)

\* the early start the claim C2 states, from the final results of the predecessors
StatedEarlyStart(a) ==
    MaxOf({0} \cup
        {(IF d.type = "FS" THEN Res(d.predecessorId).earlyFinish + d.lag
          ELSE IF d.type = "SS" THEN Res(d.predecessorId).earlyStart + d.lag
          ELSE IF d.type = "FF" THEN Res(d.predecessorId).earlyFinish + d.lag - duration(a)
          ELSE Res(d.predecessorId).earlyStart + d.lag - duration(a)) :
            d \in {e \in a.dependencies : e.predecessorId \in Ids(activities)}})

\* C2: for every acyclic graph each activity's earlyStart is the maximum of 0
\* and its dependencies' contributions, taken from the predecessors' final
\* early dates, and earlyFinish = earlyStart + duration.
C2_ForwardPass ==
    (Done /\ Acyclic) => \A id \in Ids(activities) :
        /\ Res(id).earlyStart = StatedEarlyStart(Act(id))
        /\ Res(id).earlyFinish = Res(id).earlyStart + duration(Act(id))

\* an activity listed before both of its predecessors, started by the later one
C2_Witness ==
    /\ Done /\ Acyclic /\ Len(activities) = 3
    /\ Cardinality({d.predecessorId : d \in activities[1].dependencies}) = 2
    /\ Res("A").earlyStart > 0
    /\ Res("B").earlyFinish # Res("C").earlyFinish

\* the sum of (earlyFinish - earlyStart) over the critical path
CriticalPathLength ==
    LET cp == SeqToSet(criticalPath(activities, scheduleResults))
    IN SumOver(cp, [id \in cp |-> Res(id).earlyFinish - Res(id).earlyStart])

\* every activity is on one unbranched chain: the first depends on nothing,
\* each next one has one dependency, on the one before it
ChainOrder(order) ==
    /\ Len(order) = Len(activities) /\ SeqToSet(order) = Ids(activities)
    /\ Act(order[1]).dependencies = {}
    /\ \A k \in 2..Len(order) :
          /\ Cardinality(Act(order[k]).dependencies) = 1
          /\ \A d \in Act(order[k]).dependencies : d.predecessorId = order[k - 1]

Orders == UNION {[1..n -> SeqToSet(ActivityIds)] : n \in 1..Len(ActivityIds)}

SingleChain == \E order \in Orders : ChainOrder(order)

FinishStartChain ==
    /\ SingleChain
    /\ \A i \in 1..Len(activities) : \A d \in activities[i].dependencies :
          d.type = "FS" /\ d.lag = 0

DurationCoversCriticalPath ==
    \A id \in SeqToSet(criticalPath(activities, scheduleResults)) :
        projectDuration(scheduleResults) >= duration(Act(id))

\* C3 as stated: projectDuration >= every critical activity's duration, and on
\* any single unbranched chain the critical path's durations sum to it.
C3_Original ==
    (Done /\ Acyclic) =>
        /\ DurationCoversCriticalPath
        /\ SingleChain => CriticalPathLength = projectDuration(scheduleResults)

\* C3 (amended): projectDuration >= the duration of every critical-path
\* activity; on a single unbranched chain of Finish-Start dependencies with
\* zero lag the critical path's (earlyFinish - earlyStart) sum to projectDuration.
C3_ChainLength ==
    (Done /\ Acyclic) =>
        /\ DurationCoversCriticalPath
        /\ FinishStartChain => CriticalPathLength = projectDuration(scheduleResults)

C3_Witness ==
    /\ Done /\ Acyclic /\ FinishStartChain /\ Len(activities) = 3
    /\ Len(criticalPath(activities, scheduleResults)) = 3
    /\ CriticalPathLength = projectDuration(scheduleResults)

\* C4: after the run, for every activity
\* totalFloat = lateStart - earlyStart = lateFinish - earlyFinish.
C4_TotalFloat ==
    Done => \A id \in Ids(activities) :
        /\ Res(id).totalFloat = Res(id).lateStart - Res(id).earlyStart
        /\ Res(id).totalFloat = Res(id).lateFinish - Res(id).earlyFinish

C4_Witness ==
    /\ Done
    /\ \E id \in Ids(activities) :
          /\ Res(id).totalFloat > 0 /\ duration(Act(id)) > 0
          /\ successors(activities, id) # {}

\* C5: on a cycle the sort only warns and returns the input order; the run
\* completes and every activity has a schedule result, so projectDuration
\* is defined.
C5_CycleFallback ==
    (Done /\ ~Acyclic) =>
        /\ warnings > 0
        /\ topologicalSort(activities) = IdSeq(activities)
        /\ DOMAIN scheduleResults = Ids(activities)
        /\ \A id \in Ids(activities) :
              /\ Res(id).earlyStart \in Nat
              /\ Res(id).earlyFinish = Res(id).earlyStart + duration(Act(id))
        /\ projectDuration(scheduleResults) \in Nat

\* a cycle between the first and the last activity, both with work
C5_Witness ==
    /\ Done /\ ~Acyclic /\ warnings = 2 /\ Len(activities) = 3
    /\ duration(Act("A")) > 0 /\ duration(Act("C")) > 0
    /\ Res("C").earlyFinish > 0
    /\ \E d \in Act("A").dependencies : d.predecessorId = "C"

NearZeroFloat(id) == Abs(Res(id).totalFloat) * 1000 < TicksPerDay

-----------------------------------------------------------------------------
(* Claims about the shift optimizer, checked under SpecShift *)

Optimized == pc = "optimized"

\* C10 as stated: for every raw hours h > 0 and every shift setting the billed
\* hours of optimizeShifts and of snapWithHustle are >= h.
C10_Original == Optimized => shiftPlan.hours >= shiftInput.rawHours

\* the days over which a reported hustle is spread
HustleDays ==
    IF shiftPlan.call = "optimizeShifts" /\ shiftPlan.hustleDen > 1
    THEN shiftInput.minDays ELSE 1

\* C10 (amended): the billed hours are >= h unless the plan reports a hustle;
\* with a hustle they fall short of h by the reported overrun, at most the
\* 0.5 h threshold for each day of the plan that hustles.
C10_BilledHours ==
    Optimized =>
        /\ ~shiftPlan.hustle => shiftPlan.hours >= shiftInput.rawHours
        /\ shiftPlan.hustle =>
              /\ shiftPlan.hours < shiftInput.rawHours
              /\ shiftPlan.hours >= shiftInput.rawHours - HUSTLE_THRESHOLD * HustleDays
              /\ (shiftInput.rawHours - shiftPlan.hours) * shiftPlan.hustleDen
                    = shiftPlan.hustleAmount * HustleDays

\* two full days and a last day that runs a quarter hour over 10 hours
C10_Witness ==
    /\ Optimized /\ shiftPlan.call = "optimizeShifts" /\ shiftPlan.hustle
    /\ shiftPlan.days = 3 /\ shiftInput.minDays = 1
    /\ shiftInput.rawHours - shiftPlan.hours = 1

\* a day's billed hours are a billing increment or a multiple of the largest
BillableDay(h) ==
    \/ \E i \in DOMAIN BILLING_INCREMENTS : h = BILLING_INCREMENTS[i]
    \/ h > 0 /\ h % BILLING_INCREMENTS[Len(BILLING_INCREMENTS)] = 0

\* C11 as stated: the billed hours returned are a billing increment or a
\* multiple of the largest increment.
C11_Original == Optimized => BillableDay(shiftPlan.hours)

\* C11 (amended): the hours snapWithHustle bills for a day are a billing
\* increment or a multiple of the largest one; the total optimizeShifts
\* returns is the sum of its days' hours: full shifts of the shift base, then
\* at most one such snapped day, or the same snapped day on each of the
\* minimum days.
C11_BilledIncrements ==
    Optimized =>
        /\ shiftPlan.call = "snapWithHustle" => BillableDay(shiftPlan.hours)
        /\ shiftPlan.call = "optimizeShifts" =>
              \/ shiftPlan.hours = shiftPlan.days * shiftPlan.shiftBase
              \/ BillableDay(shiftPlan.hours - (shiftPlan.days - 1) * shiftPlan.shiftBase)
              \/ /\ shiftPlan.hours % shiftPlan.days = 0
                 /\ BillableDay(shiftPlan.hours \div shiftPlan.days)

\* a full shift and a snapped last day whose total is no increment
C11_Witness ==
    /\ Optimized /\ shiftPlan.call = "optimizeShifts" /\ shiftPlan.days = 2
    /\ ~BillableDay(shiftPlan.hours)
    /\ shiftPlan.hours # 2 * shiftPlan.shiftBase
    /\ BillableDay(shiftPlan.hours - shiftPlan.shiftBase)

-----------------------------------------------------------------------------
(* Claims about calcThreeTier, checked under SpecThreeTier *)

Tiered == pc = "tiered"

PositiveTierInput ==
    /\ tierInput.grossQty > 0
    /\ tierInput.prodPerDay > 0
    /\ tierInput.productivityFactor > 0

RawDaysOrdered ==
    /\ FracGeq(threeTier.conservative.rawDays, threeTier.standard.rawDays)
    /\ FracGeq(threeTier.standard.rawDays, threeTier.aggressive.rawDays)

BilledDaysOrdered ==
    /\ FracGeq(threeTier.conservative.optimized.days, threeTier.standard.optimized.days)
    /\ FracGeq(threeTier.standard.optimized.days, threeTier.aggressive.optimized.days)

\* C12 as stated: for a positive quantity, rate and productivity factor the
\* tiers are ordered conservative >= standard >= aggressive both in rawDays
\* and in the optimized number of billed days.
C12_Original ==
    (Tiered /\ PositiveTierInput) => (RawDaysOrdered /\ BilledDaysOrdered)

\* the shift settings calcThreeTier defaults to: 8 h standard, 12 h maximum
DefaultShifts == tierInput.stdShift = 32 /\ tierInput.maxShift = 48

\* C12, amended: for a positive quantity, rate and productivity factor the
\* tiers are ordered conservative >= standard >= aggressive in rawDays under
\* every shift setting, and in the optimized number of billed days under the
\* default shifts of 8 h and 12 h.
C12_TiersOrdered ==
    (Tiered /\ PositiveTierInput) =>
        /\ RawDaysOrdered
        /\ DefaultShifts => BilledDaysOrdered

C12_Witness ==
    /\ Tiered /\ PositiveTierInput /\ DefaultShifts
    /\ threeTier.conservative.optimized.days.num > threeTier.standard.optimized.days.num
    /\ threeTier.standard.optimized.days.num > threeTier.aggressive.optimized.days.num
    /\ threeTier.aggressive.optimized.days.num > 0

FiniteTier(t) ==
    /\ IsFinite(t.rawDays)
    /\ IsFinite(t.rawHours)
    /\ IsFinite(t.optimized.hours)
    /\ IsFinite(t.optimized.days)

\* C13: no quotient is evaluated with a zero divisor; for calcThreeTier: for
\* every input, a zero quantity, rate or productivity factor included, every
\* number of every tier it returns is finite.
C13_NoZeroDivisor ==
    Tiered => \A t \in SeqToSet(Tiers) : FiniteTier(threeTier[t])

\* the inputs calcThreeTier guards: a zero quantity or rate gives finite tiers
C13_GuardedInputs ==
    (Tiered /\ (tierInput.grossQty = 0 \/ tierInput.prodPerDay = 0
                \/ tierInput.productivityFactor > 0)) =>
        \A t \in SeqToSet(Tiers) : FiniteTier(threeTier[t])

-----------------------------------------------------------------------------
(* Claims about the pipeline, checked under SpecPipeline *)

Returned == pc = "returned"
BeforeScheduleEnds == pc \in {"start", "schedule", "threw"}

PerDayRates ==
    LET gc == estimate.indirectCosts.generalConditions
    IN gc.superintendentPerDay + gc.fieldOfficePerDay + gc.tempFacilitiesPerDay
       + gc.tempConstructionPerDay

\* C7: the indirect costs are calculated only once the CPM run has finished,
\* every such calculation (the one of Calculator.calculate and the one after
\* the trucking patch) is given the scheduler's projectDuration, and the
\* time-dependent general conditions are the per-day rates times it.
C7_IndirectUsesProjectDuration ==
    /\ BeforeScheduleEnds => indirectCalls = << >>
    /\ \A i \in DOMAIN indirectCalls :
          indirectCalls[i].projectDurationDays = projectDuration(scheduleResults)
    /\ indirectCalls # << >> =>
          results.indirect.gcTimeDep
              = fl((PerDayRates * projectDuration(scheduleResults)) \div TicksPerDay)
    /\ Returned => /\ Len(indirectCalls) = 2
                   /\ indirectCalls[1].caller = "calculate"
                   /\ indirectCalls[2].caller = "patch"

\* two activities side by side: the project is shorter than the sum of the
\* durations, and there is a per-day rate to charge
C7_Witness ==
    /\ Returned /\ PerDayRates > 0
    /\ results.projectDuration > 0
    /\ results.totalActivityDays > results.projectDuration
    /\ results.indirect.gcTimeDep > 0

PatchedFields(res) ==
    [directCostTotal |-> res.directCostTotal,
     totalTruckingCost |-> res.totalTruckingCost,
     totalTruckHours |-> res.totalTruckHours,
     activities |-> [i \in 1..Len(res.activities) |->
                        [truckingCost |-> res.activities[i].truckingCost,
                         directCost |-> res.activities[i].directCost,
                         unitCost |-> res.activities[i].unitCost]]]

\* the patch recomputed the trucking of the i-th activity to another cost
PatchChanged(i) ==
    /\ overridden(activities[i], results.activities[i])
    /\ results.activities[i].truckingCost > 0
    /\ results.activities[i].truckingCost # calculateTrucking(activities[i], truckingRate).truckCost

\* C8: the patch step applied to results it has already patched leaves the
\* direct cost total, the trucking cost and truck hour totals and every
\* activity's trucking cost, direct cost and unit cost as they are.
C8_PatchIdempotent ==
    pc \in {"patched", "returned"} =>
        PatchedFields(patchTrucking(results, activities, truckingRate, estimate.jobMode))
            = PatchedFields(results)

C8_Witness ==
    /\ pc = "patched"
    /\ \E i \in 1..Len(activities) :
          PatchChanged(i) /\ calculateTrucking(activities[i], truckingRate).truckCost > 0

\* the sum of the activities' direct costs, added up in their order
SumOfDirectCosts ==
    FSumSeq([k \in DOMAIN results.activities |-> results.activities[k].directCost])

\* the sum of the activities' trucking costs, added up in their order
SumOfTruckingCosts ==
    FSumSeq([k \in DOMAIN results.activities |-> results.activities[k].truckingCost])

\* the sum of the five cost totals, added up as Calculator.calculate does
SumOfCostTotals ==
    fadd(fadd(fadd(fadd(results.totalLaborCost, results.totalEquipmentCost),
                   results.totalMaterialCost), results.totalTruckingCost),
         results.totalMobilizationCost)

\* the downstream outputs are those calculated from the patched values
DownstreamFromPatched ==
    /\ results.indirect =
          IndirectCostsCalculate(estimate.indirectCosts, results.directCostTotal,
              fadd(results.totalLaborCost, results.totalEquipmentCost),
              projectDuration(scheduleResults))
    /\ results.unitChecks = unitChecksPatched(results.activities, estimate.jobMode)
    /\ results.confidenceScore = calculateConfidence(results.activities, estimate.jobMode)
    /\ results.analysisResults =
          generateAnalysis(results.activities, estimate.jobMode,
                           results.clusterResults, results.totalHMATons)

\* C9: once calculateWithTruckingOverrides has returned, the aggregates agree
\* exactly with the patched activity results (direct cost total = sum of the
\* direct costs = sum of the five cost totals, trucking total = sum of the
\* trucking costs), and the indirect costs, unit checks, confidence and
\* analysis are those calculated from the patched values.
C9_AggregatesConsistent ==
    Returned =>
        /\ results.directCostTotal = SumOfDirectCosts
        /\ results.directCostTotal = SumOfCostTotals
        /\ results.totalTruckingCost = SumOfTruckingCosts
        /\ DownstreamFromPatched

\* the parts of C9 one by one: the trucking total, the direct cost total
\* against the activities and against the cost totals, the downstream outputs
C9_TruckingTotal == Returned => results.totalTruckingCost = SumOfTruckingCosts
C9_DirectIsSumOfActivities == Returned => results.directCostTotal = SumOfDirectCosts
C9_DirectIsSumOfTotals == Returned => results.directCostTotal = SumOfCostTotals
C9_Downstream == Returned => DownstreamFromPatched
\* the trucking total agrees wherever the patch recomputed nothing
C9_TruckingTotalUnpatched ==
    (Returned /\ \A i \in 1..Len(activities) : ~overridden(activities[i], results.activities[i]))
        => results.totalTruckingCost = SumOfTruckingCosts

\* an activity that has no production rate or no quantity
NoWork(a) == a.outputQty = 0 \/ a.grossQuantity = 0

ZeroResult(ar) ==
    /\ ar.duration = 0
    /\ ar.laborCost = 0 /\ ar.equipmentCost = 0 /\ ar.materialCost = 0
    /\ ar.mobilizationCost = 0 /\ ar.truckingCost = 0
    /\ ar.directCost = 0
    /\ ar.unitCost.num = 0

\* C14: for an activity whose production rate is zero or missing, or whose
\* quantity is zero, every derived result is zero: duration, labor, equipment,
\* material, mobilization and trucking cost, its direct cost and unit cost, and
\* the three tiers calcThreeTier gives for it.
C14_ZeroResults ==
    pc \in {"calculated", "patched", "returned"} =>
        \A i \in DOMAIN activities :
            NoWork(activities[i]) =>
                /\ ZeroResult(results.activities[i])
                /\ calcThreeTier(activities[i].grossQuantity, activities[i].outputQty,
                                 activities[i].composite, 32, 48)
                      = [t \in SeqToSet(Tiers) |-> emptyTier]

\* the same for every result but the material cost and what is summed from it
C14_ZeroButMaterial ==
    pc \in {"calculated", "patched", "returned"} =>
        \A i \in DOMAIN activities :
            NoWork(activities[i]) =>
                LET ar == results.activities[i]
                IN /\ ar.duration = 0
                   /\ ar.laborCost = 0 /\ ar.equipmentCost = 0
                   /\ ar.mobilizationCost = 0 /\ ar.truckingCost = 0
                   /\ ar.directCost = ar.materialCost
                   /\ activities[i].grossQuantity = 0 => ZeroResult(ar)

\* C15: Calculator.calculate never raises: whatever the estimate, the run
\* does not end in an exception.
C15_NeverRaises == pc # "threw"

\* with shift settings on the estimate the run never raises, and once it has
\* calculated its results hold one activity result for every activity
C15_ReturnsWithShiftSettings ==
    /\ ~estimate.shiftSettings.isNull => pc # "threw"
    /\ pc \in {"calculated", "patched", "returned"} =>
          /\ Len(results.activities) = Len(activities)
          /\ \A i \in DOMAIN activities : results.activities[i].id = activities[i].id

\* the inputs of the latest run: the activities and the estimate as
\* buildEstimateFromUI constructed them
LatestActivities == [i \in DOMAIN activities |-> [activities[i] EXCEPT !.threeTier = NoThreeTier]]
LatestEstimate ==
    [estimate EXCEPT !.confidenceScore = << >>, !.analysisResults = << >>,
                     !.calendarDuration = NoCalendar]
LatestResults == calculateWithTruckingOverrides(LatestActivities, LatestEstimate, truckingRate)

-----------------------------------------------------------------------------
(* Claims about the unit checks, checked under SpecUnitCheck *)

\* the band of unit cost u against benchmark bm (prices in cents)
Band(u, bm) ==
    CASE u.num * 200 < bm.p25 * u.den -> "VERY_LOW"
      [] u.num * 200 >= bm.p25 * u.den /\ u.num * 100 < bm.p25 * u.den -> "LOW"
      [] u.num * 100 >= bm.p25 * u.den /\ u.num * 100 <= bm.p75 * u.den -> "IN_RANGE"
      [] u.num * 100 > bm.p75 * u.den /\ u.num * 200 <= 3 * bm.p75 * u.den -> "HIGH"
      [] u.num * 200 > 3 * bm.p75 * u.den -> "VERY_HIGH"

CheckedBenchmark == benchmarksFor(benchmarkInput.jobMode)[benchmarkInput.activityType]

\* C19: _getUnitCostStatus, the unit checks of Phase 8 and the unit checks
\* after the trucking patch each give a unit cost c the band VERY_LOW if
\* c < 0.5 P25, LOW if 0.5 P25 <= c < P25, IN_RANGE if P25 <= c <= P75, HIGH
\* if P75 < c <= 1.5 P75 and VERY_HIGH if c > 1.5 P75.
C19_SameBandsEverywhere ==
    unitStatus.classified =>
        LET band == Band(benchmarkInput.unitCost, CheckedBenchmark)
        IN /\ unitStatus.confidence = band
           /\ \A i \in DOMAIN unitStatus.phase8 : unitStatus.phase8[i].status = band
           /\ \A i \in DOMAIN unitStatus.patched : unitStatus.patched[i].status = band

\* a unit cost equal to P75, classified IN_RANGE by all three
C19_Witness ==
    /\ unitStatus.classified
    /\ benchmarkInput.unitCost.num * 100 = CheckedBenchmark.p75 * benchmarkInput.unitCost.den
    /\ unitStatus.confidence = "IN_RANGE"
    /\ Len(unitStatus.phase8) = 1 /\ unitStatus.phase8[1].status = "IN_RANGE"
    /\ Len(unitStatus.patched) = 1 /\ unitStatus.patched[1].status = "IN_RANGE"

-----------------------------------------------------------------------------
(* Further claims about the pipeline, checked under SpecPipeline *)

\* C18: the composite calculateConfidence returns is in [0, 1]; when no
\* activity is active (duration > 0) it is 0 and the descriptor is LOW.
C18_CompositeInUnitInterval ==
    pc \in {"calculated", "patched", "returned"} =>
        LET c == results.confidenceScore
        IN /\ c.composite.den > 0
           /\ 0 <= c.composite.num /\ c.composite.num <= c.composite.den
           /\ Active(results.activities) = << >> =>
                 c.composite.num = 0 /\ c.descriptor = "LOW"

\* activities, none with any work, scored
C18_Witness ==
    /\ Returned /\ Len(results.activities) = 2
    /\ Active(results.activities) = << >>
    /\ results.confidenceScore.composite.num = 0
    /\ results.confidenceScore.descriptor = "LOW"

Assessed == pc \in {"calculated", "patched", "returned"}

\* a timeline of workDays work entries numbered from 1, then w weather entries
WellFormedCalendar(c, w) ==
    /\ c.weatherDays = w
    /\ c.totalDays = c.workDays + w
    /\ Len(c.timeline) = c.totalDays
    /\ \A d \in DOMAIN c.timeline :
          /\ c.timeline[d].day = d
          /\ c.timeline[d].type = IF d <= c.workDays THEN "work" ELSE "weather"

\* C22: for every schedule and weather-day count w, with or without active
\* activities, the calendar's timeline is workDays work entries numbered
\* from 1 followed by w weather entries, its length is totalDays =
\* workDays + w, and workDays is the CPM project duration in whole days.
C22_TimelineMatchesTotals ==
    Assessed =>
        /\ WellFormedCalendar(results.calendarDuration, estimate.weatherDays)
        /\ results.calendarDuration.workDays
              = CeilDiv(projectDuration(scheduleResults), TicksPerDay)

\* the part of C22 the code keeps: the calendar of a run with an active
\* activity, and the totals of a run without
C22_TimelineWithActiveActivity ==
    Assessed =>
        /\ Active(results.activities) # << >> =>
              WellFormedCalendar(results.calendarDuration, estimate.weatherDays)
        /\ results.calendarDuration.totalDays
              = results.calendarDuration.workDays + estimate.weatherDays
        /\ results.calendarDuration.workDays
              = CeilDiv(projectDuration(scheduleResults), TicksPerDay)

-----------------------------------------------------------------------------
(* Claims about the Monte Carlo simulation, checked under SpecMonteCarlo *)

Degenerate(v) == v.min = v.mostLikely /\ v.mostLikely = v.max

AllDegenerate == \A k \in DOMAIN simulation.variables : Degenerate(simulation.variables[k])

\* the sum of weight * baseEstimate over the variables
WeightedBase ==
    SumSeq([k \in DOMAIN simulation.variables |->
               (simulation.variables[k].weight * simulation.baseEstimate) \div 100])

\* C17: in a run in which every variable is degenerate (min = mostLikely =
\* max) every sampled total is the sum of weight * baseEstimate; one variable
\* at 100 with weight 1.0 against a base of 1000 gives 1000 every time.
C17_DegenerateTotals ==
    AllDegenerate =>
        /\ \A i \in DOMAIN simulated.results : simulated.results[i] = WeightedBase
        /\ pc = "analyzed" =>
              \A i \in DOMAIN simulated.returned.distribution :
                  simulated.returned.distribution[i] = WeightedBase
        /\ (/\ Len(simulation.variables) = 1
            /\ simulation.variables[1] = [min |-> 100, mostLikely |-> 100, max |-> 100,
                                           weight |-> 100]
            /\ simulation.baseEstimate = 1000) =>
              \A i \in DOMAIN simulated.results : simulated.results[i] = 1000

C17_Witness ==
    /\ pc = "analyzed" /\ AllDegenerate
    /\ simulation.iterations = MaxIterations
    /\ Len(simulated.returned.distribution) = MaxIterations
    /\ Len(simulation.variables) = 2
    /\ simulation.variables[1].mostLikely = 100
    /\ simulation.variables[2].mostLikely = 0

-----------------------------------------------------------------------------
(* Claims about clusterize, checked under SpecCluster *)

ActiveClusterTypes == activeTypesOf(clusterInput.activities)

\* the clusters of the returned value that hold type t
ClustersHolding(t) ==
    {i \in DOMAIN clustered.clusters : t \in SeqToSet(clustered.clusters[i].activities)}

ClusterIds == {clustered.clusters[i].id : i \in DOMAIN clustered.clusters}

MillAndPaveActive ==
    "milling" \in ActiveClusterTypes
        /\ ("paving_base" \in ActiveClusterTypes \/ "paving_surface" \in ActiveClusterTypes)

\* the predefined cluster of a type: earthwork, milling or paving
PredefinedCluster(t) ==
    CHOOSE key \in {"earthwork", "milling", "paving"} :
        t \in SeqToSet(CREW_CLUSTERS[key].activities)

\* C20: clusterize puts each active type in exactly one cluster, and no type
\* that is not active in any; with milling and a paving type both active
\* there is one combo cluster and neither a milling nor a paving cluster,
\* otherwise each active type is in its predefined cluster; the earthwork
\* cluster holds the active earthwork types and comes last.
C20_OneClusterPerActiveType ==
    clustered.returned =>
        /\ \A t \in ActiveClusterTypes :
              /\ Cardinality(ClustersHolding(t)) = 1
              /\ \A i \in ClustersHolding(t) :
                    Cardinality({k \in DOMAIN clustered.clusters[i].activities :
                                    clustered.clusters[i].activities[k] = t}) = 1
        /\ \A i \in DOMAIN clustered.clusters :
              /\ clustered.clusters[i].activities # << >>
              /\ SeqToSet(clustered.clusters[i].activities) \subseteq ActiveClusterTypes
        /\ \A i, j \in DOMAIN clustered.clusters :
              clustered.clusters[i].id = clustered.clusters[j].id => i = j
        /\ IF MillAndPaveActive
           THEN /\ "combo" \in ClusterIds
                /\ "milling" \notin ClusterIds /\ "paving" \notin ClusterIds
                /\ \A t \in ActiveClusterTypes : \A i \in ClustersHolding(t) :
                      clustered.clusters[i].id =
                          IF PredefinedCluster(t) = "earthwork" THEN "earthwork" ELSE "combo"
           ELSE /\ "combo" \notin ClusterIds
                /\ \A t \in ActiveClusterTypes : \A i \in ClustersHolding(t) :
                      clustered.clusters[i].id = PredefinedCluster(t)
        /\ \A i \in DOMAIN clustered.clusters :
              clustered.clusters[i].id = "earthwork" => i = Len(clustered.clusters)

\* milling, surface paving, tack coat and excavation active: a combo cluster
\* and, after it, the earthwork cluster
C20_Witness ==
    /\ clustered.returned
    /\ ActiveClusterTypes = {"milling", "paving_surface", "tack_coat", "excavation"}
    /\ Len(clustered.clusters) = 2
    /\ clustered.clusters[1].id = "combo"
    /\ clustered.clusters[1].activities = <<"milling", "paving_surface", "tack_coat">>
    /\ clustered.clusters[2].id = "earthwork"
    /\ clustered.clusters[2].activities = <<"excavation">>

\* calendar work days of the activities of the call, as the timeline reports
CalendarWorkDays == calculateCalendarDuration(clusterInput.activities, 0).workDays

\* C21: the safety cost is 0 outside roadway mode, and in roadway mode it is
\* calendar work days x the estimate's standard shift hours x the safety
\* crew's hourly rate.
C21_SafetyCost ==
    clustered.returned =>
        clustered.safetyCost =
            IF clusterInput.jobMode = "roadway"
            THEN CalendarWorkDays * clusterInput.stdShift * CREW_DATA.SAFE.rate
            ELSE 0

\* the part of C21 the code keeps: no safety cost outside roadway mode, and
\* in roadway mode 8 hours a day over the longest finish, in days and halves
C21_EightHoursOverLastFinish ==
    clustered.returned =>
        clustered.safetyCost =
            IF clusterInput.jobMode = "roadway"
            THEN (lastFinish(Active(clusterInput.activities)) * 8 * CREW_DATA.SAFE.rate)
                     \div TicksPerDay
            ELSE 0

-----------------------------------------------------------------------------
(* Claims about the Estimate, checked under SpecEstimate *)

\* C23: the job mode, shift settings, cluster-mode flag, travel hours and
\* weather-day count an Estimate is constructed with are the ones
\* Calculator.calculate reads from it.
C23_SettingsCarried ==
    pc \in {"built", "raised", "read"} =>
        /\ estimate.jobMode = params.jobMode
        /\ estimate.shiftSettings = params.shiftSettings
        /\ estimate.clusterMode = params.clusterMode
        /\ estimate.travelHours = params.travelHours
        /\ estimate.weatherDays = params.weatherDays

\* what the code does instead: every one of the five settings is undefined on
\* the constructed Estimate, and calculate raises on reading the shift settings
C23_SettingsDropped ==
    /\ pc \in {"built", "raised", "read"} =>
          /\ estimate.jobMode = "undefined"
          /\ estimate.shiftSettings.isNull
          /\ ~estimate.clusterMode
          /\ estimate.travelHours = 0
          /\ estimate.weatherDays = 0
    /\ pc # "read"

-----------------------------------------------------------------------------
(* Claims about repeated calculation, checked under SpecRepeat *)

-----------------------------------------------------------------------------
(* Claims about the milling and paving rows, from the form to the analysis *)

\* calculateWithTruckingOverrides has returned the results of the form's rows
PavingAnalysed == pc = "returned"

Emitted(flag) ==
    \E k \in DOMAIN results.analysisResults : results.analysisResults[k].flag = flag

ActivePavingActivities == {i \in DOMAIN activities : duration(activities[i]) > 0}

MillingAndPavingActive ==
    hasMillAndPave({activities[i].activityType : i \in ActivePavingActivities})

ComboCrewInUse == \E i \in ActivePavingActivities : activities[i].crew.id = "C-COMBO"

\* C25: COMBO_AVAILABLE is emitted exactly when milling and paving are both
\* active, cluster mode is on and no active activity uses the COMBO crew; it
\* is never emitted for an estimate whose activities were assigned that crew
C25_ComboSuggestedUnlessAssigned ==
    PavingAnalysed =>
        /\ Emitted("COMBO_AVAILABLE")
              <=> (MillingAndPavingActive /\ estimate.clusterMode /\ ~ComboCrewInUse)
        /\ (\E i \in DOMAIN activities : activities[i].crew.id = "C-COMBO")
              => ~Emitted("COMBO_AVAILABLE")

\* what the analysis does: the suggestion goes with cluster mode and the two
\* kinds of work, whatever crew was assigned
C25_ComboSuggestedWhateverCrew ==
    PavingAnalysed =>
        (Emitted("COMBO_AVAILABLE") <=> (MillingAndPavingActive /\ estimate.clusterMode))

\* the tons of HMA with waste of the paving_base and paving_surface activities
PavingTonsWithWaste ==
    SumSeq([i \in DOMAIN activities |->
               IF activities[i].activityType \in {"paving_base", "paving_surface"}
               THEN activities[i].extra.tonsWithWaste ELSE 0])

\* C26: results.totalHMATons is the sum of the tons with waste of the
\* paving_base and paving_surface activities, and an estimate whose paving
\* activities total more than 0 and fewer than 100 tons receives PLANT_OPENING
C26_PlantOpeningForSmallTonnage ==
    PavingAnalysed =>
        /\ results.totalHMATons = PavingTonsWithWaste
        /\ (PavingTonsWithWaste > 0 /\ PavingTonsWithWaste < 100) => Emitted("PLANT_OPENING")

\* what the calculation does: the tonnage it tracks stays 0 and the
\* observation is never made
C26_NoTonnageTracked ==
    PavingAnalysed => (results.totalHMATons = 0 /\ ~Emitted("PLANT_OPENING"))

-----------------------------------------------------------------------------
(* Claims about the floats of the Scheduler *)

AllDependencies == UNION {activities[i].dependencies : i \in DOMAIN activities}

C28_FreeFloatWithinTotalFloat ==
    (Done /\ Acyclic) =>
        \A id \in Ids(activities) :
            /\ Res(id).freeFloat >= 0
            /\ Res(id).freeFloat <= Res(id).totalFloat

\* what the float calculation keeps: the bounds hold on the graphs whose
\* dependencies are all Finish-Start without lag
C28_FinishStartWithoutLag ==
    (Done /\ Acyclic /\ \A d \in AllDependencies : d.type = "FS" /\ d.lag = 0) =>
        \A id \in Ids(activities) :
            /\ Res(id).freeFloat >= 0
            /\ Res(id).freeFloat <= Res(id).totalFloat

-----------------------------------------------------------------------------
(* Claims about the hours the shift optimizer bills per day *)

OptimizedPlan == pc = "optimized" /\ shiftPlan.call = "optimizeShifts"

\* C29: for every raw hours value and every standard shift <= maximum shift,
\* the plan optimizeShifts returns bills at most the maximum shift per day:
\* hours <= days * maxShift
C29_WithinMaximumShift ==
    (OptimizedPlan /\ shiftInput.stdShift <= shiftInput.maxShift) =>
        shiftPlan.hours <= shiftPlan.days * shiftInput.maxShift

\* what the optimizer keeps: with the default shifts of 8 and 12 hours, the
\* largest billing increment, no plan bills more than 12 hours per day
C29_WithinLargestIncrement ==
    (OptimizedPlan /\ shiftInput.stdShift = 32 /\ shiftInput.maxShift = 48) =>
        shiftPlan.hours <= shiftPlan.days * shiftInput.maxShift

-----------------------------------------------------------------------------
(* Claims about what cluster mode changes *)

\* the results of the same form with the cluster mode flag the other way
OtherClusterMode ==
    calculateWithTruckingOverrides(
        [i \in DOMAIN activities |-> pavingActivity(i, params)],
        [estimate EXCEPT !.clusterMode = ~estimate.clusterMode], truckingRate)

\* the fields of the results that hold or read the cluster results
ClusterFields == {"clusterResults", "mobAndSafety", "analysisResults"}

\* the observations of the analysis rules that read the cluster results
\* (rules 5, 7 and 9)
ClusterFlags == {"COMBO_AVAILABLE", "SAFETY_MISSING", "MOB_HIGH"}

OtherObservations(obs) == SelectSeq(obs, LAMBDA o : o.flag \notin ClusterFlags)

====
